---- MODULE Spec2Model ----
(***************************************************************************)
(* Model of sky/engine/core/script/dart_init.cc: the Dart VM bootstrap,    *)
(* the isolate creation callbacks, the precompiled-symbol resolvers, the   *)
(* service stream callbacks and the embedder tracing callbacks.            *)
(***************************************************************************)
EXTENDS Integers, Sequences, FiniteSets, TLC

VARIABLES
  build,        \* compile-time configuration (#if / #ifdef switches)
  settings,     \* SkySettings::Get()
  cmdline,      \* value of the --dart-flags switch, or NoSwitch
  assetFile,    \* Android: what the file system answers for each asset file
  mapping,      \* Android: g_symbol_assets[i].mapping
  nextAddr,     \* Android: number of regions mmap has handed out so far
  dylib,        \* iOS: contents of app.dylib and of the default namespace
  thr,          \* per thread: position inside _DartSymbolLookup (Android)
  seen,         \* per symbol name: the pointer the last completed lookup returned
  files,        \* file system seen by base::GetFileInfo
  capture,      \* dart::bin capture state of stdout and stderr
  g_tracing_callbacks,
  lastSetCallbacks,  \* argument of the latest SetEmbedderTracingCallbacks
  invoked,      \* how often each embedder callback has run
  g_service_isolate_initialized,
  g_service_isolate_hook,
  g_register_native_service_protocol_extensions_hook,
  vmCalls,      \* number of InitDartVM / VM callback invocations so far
  streamLog,    \* the service stream callbacks invoked so far, oldest first
  vm,           \* the Dart VM: flags applied, initialized, callbacks it holds
  dart_states,  \* the DartState objects allocated so far, by address
  isolates,     \* the isolates the VM has created, with their callback data
  modes_seen,   \* the answers IsRunningPrecompiledCode has given so far
  creating,     \* per thread: the IsolateCreateCallback invocation it is running
  vm_thread,    \* per thread, inside the VM: current isolate and open API scope
  progress,     \* per isolate handle: the calls that have acted on the isolate
  fatal,        \* the process has been terminated by FTL_CHECK / FTL_LOG(FATAL)
  last          \* record of the latest completed operation

vars == << build, settings, cmdline, assetFile, mapping, nextAddr, dylib, thr,
           seen, files, capture, g_tracing_callbacks, lastSetCallbacks, invoked,
           g_service_isolate_initialized, g_service_isolate_hook,
           g_register_native_service_protocol_extensions_hook, vmCalls,
           streamLog, vm, dart_states, isolates, modes_seen, creating, vm_thread,
           progress, fatal, last >>

inputVars == << build, settings, cmdline, dylib, files >>
androidVars == << assetFile, mapping, nextAddr, thr, seen >>
streamVars == << capture, streamLog >>
tracingVars == << g_tracing_callbacks, lastSetCallbacks, invoked >>
serviceVars == << g_service_isolate_initialized, g_service_isolate_hook,
                  g_register_native_service_protocol_extensions_hook >>
isolateVars == << dart_states, isolates >>
createVars == << creating, vm_thread, progress >>
vmVars == << vm, dart_states, isolates, modes_seen >>

(***************************************************************************)
(* Bounds                                                                  *)
(***************************************************************************)
MaxFlagLen == 3     \* longest --dart-flags value, in characters
MaxMaps == 3        \* regions mmap may hand out
MaxCalls == 3       \* invocations of a handler in one behaviour
MaxInvoked == 2     \* runs of one embedder tracing callback
MaxTimeSec == 2     \* latest whole second of a timestamp
MaxCreations == 2   \* stepwise IsolateCreateCallback invocations in one behaviour

Null == 0
NoSwitch == "<no switch>"
NoFlags == <<"<Dart_SetVMFlags not called>">>

(***************************************************************************)
(* Static tables, dart_init.cc:84-128                                      *)
(***************************************************************************)
kDartProfilingArgs ==
  IF build.os \in {"ios", "macosx"}
    THEN <<"--profile_period=1000", "--no-profiler">>
    ELSE <<"--profile_period=1000">>

kDartMirrorsArgs == <<"--enable_mirrors=false">>

kDartPrecompilationArgs == <<"--precompilation">>

kDartBackgroundCompilationArgs == <<"--background_compilation">>

kDartCheckedModeArgs ==
  <<"--enable_asserts", "--enable_type_checks", "--error_on_bad_type",
    "--error_on_bad_override">>

kDartStartPausedArgs == <<"--pause_isolates_on_start">>

kDartTraceStartupArgs ==
  <<"--timeline_streams=Compiler,Dart,Embedder,GC", "--timeline_recorder=endless">>

kDartVmIsolateSnapshotBufferName == "kDartVmIsolateSnapshotBuffer"
kDartIsolateSnapshotBufferName == "kDartIsolateSnapshotBuffer"
kInstructionsSnapshotName == "kInstructionsSnapshot"
kDataSnapshotName == "kDataSnapshot"


NullName == "<nullptr>"      \* a null const char* argument
MAP_FAILED == -1
BOOL == {TRUE, FALSE}

Range(s) == {s[i] : i \in DOMAIN s}

(***************************************************************************)
(* Dynamic-library resolver (iOS), dart_init.cc:342-377                    *)
(* dylib.present: app.dylib can be opened; dylib.app / dylib.def: the      *)
(* symbol tables of app.dylib and of the default namespace, each entry     *)
(* [defined, addr] (a defined symbol may have the value NULL).             *)
(***************************************************************************)
kDartApplicationLibraryPath == "app.dylib"
DefaultNamespace == "<default>"     \* dlopen(nullptr, ...)

\* dlopen(library, RTLD_NOW): the handle, and what dlerror() reports next.
Dlopen(library) ==
  IF library = DefaultNamespace THEN [handle |-> "def", err |-> FALSE]
  ELSE IF dylib.present THEN [handle |-> "app", err |-> FALSE]
  ELSE [handle |-> "none", err |-> TRUE]

\* dlsym(handle, symbol_name): the address, and what dlerror() reports next.
Dlsym(handle, symbol_name) ==
  LET table == IF handle = "app" THEN dylib.app ELSE dylib.def IN
  IF symbol_name \in DOMAIN table /\ table[symbol_name].defined
    THEN [sym |-> table[symbol_name].addr, err |-> FALSE]
    ELSE [sym |-> Null, err |-> TRUE]

\* Returns [ret, opened]: opened lists the libraries handed to dlopen.
DartLookupSymbolInLibrary(symbol_name, library) ==
  IF symbol_name = NullName THEN [ret |-> Null, opened |-> <<>>]
  ELSE LET h == Dlopen(library) IN
       IF h.err THEN [ret |-> Null, opened |-> <<library>>]
       ELSE LET s == Dlsym(h.handle, symbol_name) IN
            [ret |-> IF s.err THEN Null ELSE s.sym, opened |-> <<library>>]

\* A plausible slip: the default namespace is searched before app.dylib.
IosSymbolLookupDefaultFirst(symbol_name) ==
  IF symbol_name = NullName THEN [ret |-> Null, opened |-> <<>>]
  ELSE LET d == DartLookupSymbolInLibrary(symbol_name, DefaultNamespace) IN
       IF d.ret # Null THEN d
       ELSE LET a == DartLookupSymbolInLibrary(symbol_name,
                                               kDartApplicationLibraryPath) IN
            [ret |-> a.ret, opened |-> d.opened \o a.opened]

IosSymbolLookup(symbol_name) ==
  IF symbol_name = NullName THEN [ret |-> Null, opened |-> <<>>]
  ELSE LET a == DartLookupSymbolInLibrary(symbol_name,
                                          kDartApplicationLibraryPath) IN
       IF a.ret # Null THEN a
       ELSE LET d == DartLookupSymbolInLibrary(symbol_name, DefaultNamespace) IN
            [ret |-> d.ret, opened |-> a.opened \o d.opened]

(***************************************************************************)
(* Asset-mapping resolver (Android), dart_init.cc:381-434                  *)
(***************************************************************************)
g_symbol_assets ==
  << [symbol_name |-> kDartVmIsolateSnapshotBufferName,
      file_name |-> "snapshot_aot_vmisolate", is_executable |-> FALSE],
     [symbol_name |-> kDartIsolateSnapshotBufferName,
      file_name |-> "snapshot_aot_isolate", is_executable |-> FALSE],
     [symbol_name |-> kInstructionsSnapshotName,
      file_name |-> "snapshot_aot_instr", is_executable |-> TRUE],
     [symbol_name |-> kDataSnapshotName,
      file_name |-> "snapshot_aot_rodata", is_executable |-> FALSE] >>

AssetIdx == DOMAIN g_symbol_assets

\* What the file system can answer for one asset file.
Outcomes == {"nofile", "openfail", "mmapfail", "ok"}

\* The for loop with strcmp: the first table entry of that name, 0 if none.
FindAsset(symbol_name) ==
  LET hits == {i \in AssetIdx : g_symbol_assets[i].symbol_name = symbol_name} IN
  IF hits = {} THEN 0 ELSE CHOOSE i \in hits : \A j \in hits : i <= j

\* Lines 407-425 for table entry i, with `next` regions mapped so far:
\* "fatal" (FTL_CHECK on the snapshot directory), "early" (return nullptr
\* before the cache entry is written) or "mapped" with mmap's result.
MapAsset(i, next) ==
  IF settings.aot_snapshot_path = ""
    THEN [kind |-> "fatal", symbol |-> Null, io |-> FALSE]
  ELSE IF assetFile[i] \in {"nofile", "openfail"}
    THEN [kind |-> "early", symbol |-> Null, io |-> TRUE]
  ELSE IF assetFile[i] = "mmapfail"
    THEN [kind |-> "mapped", symbol |-> MAP_FAILED, io |-> TRUE]
  ELSE [kind |-> "mapped", symbol |-> next + 1, io |-> TRUE]

\* A plausible slip: the cached mapping is never found.
AlreadyMappedNever(map, i) == FALSE

\* Line 403.
AlreadyMapped(map, i) == map[i] # Null

\* Line 426.
StoreMapping(map, i, symbol) ==
  [map EXCEPT ![i] = IF symbol = MAP_FAILED THEN Null ELSE symbol]

NextAfter(m, next) == IF m.kind = "mapped" /\ m.symbol # MAP_FAILED THEN next + 1 ELSE next

\* The whole of _DartSymbolLookup run without interruption on resolver state
\* rs = [mapping, nextAddr, fatal].
AndroidSymbolLookup(rs, symbol_name) ==
  LET i == FindAsset(symbol_name) IN
  IF rs.fatal THEN [ret |-> Null, rs |-> rs]
  ELSE IF i = 0 THEN [ret |-> Null, rs |-> rs]
  ELSE IF AlreadyMapped(rs.mapping, i) THEN [ret |-> rs.mapping[i], rs |-> rs]
  ELSE LET m == MapAsset(i, rs.nextAddr) IN
       IF m.kind = "fatal" THEN [ret |-> Null, rs |-> [rs EXCEPT !.fatal = TRUE]]
       ELSE IF m.kind = "early" THEN [ret |-> Null, rs |-> rs]
       ELSE LET map2 == StoreMapping(rs.mapping, i, m.symbol) IN
            [ret |-> map2[i],
             rs |-> [rs EXCEPT !.mapping = map2,
                               !.nextAddr = NextAfter(m, rs.nextAddr)]]


(***************************************************************************)
(* A handler run threads a context                                         *)
(*   c = [trace, modes, val, args, rs, g, ptr, fatal]                      *)
(* through its statements: trace lists the calls made, modes the answers   *)
(* of IsRunningPrecompiledCode so far, val the latest boolean a helper     *)
(* returned, args the VM flag vector, rs = [mapping, nextAddr, fatal] the  *)
(* resolver state, g the hook globals, ptr the latest pointer obtained.    *)
(* After a fatal check no further statement has an effect.                 *)
(***************************************************************************)
\* F applied to the value of v (v is evaluated once).
Strict(v, F(_)) == CHOOSE r \in {F(x) : x \in {v}} : TRUE

Ev(c, e) ==
  Strict(c, LAMBDA x : IF x.fatal THEN x ELSE [x EXCEPT !.trace = Append(@, e)])

EvIf(c, cond, e) == IF cond THEN Ev(c, e) ELSE c

\* A plausible slip: the result is not checked and the handler carries on.
CheckIgnored(c, ok) == c

\* FTL_CHECK(ok), CHECK(ok) and FTL_LOG(FATAL) when ~ok
Check(c, ok) ==
  Strict(c, LAMBDA x : IF x.fatal \/ ok THEN x ELSE [x EXCEPT !.fatal = TRUE])

\* The VM before InitDartVM has run: no flags applied, not initialized, no
\* callback of this file handed to it.
NoVM == [flags_set |-> 0, debugger |-> FALSE, initialized |-> 0, callbacks |-> {}]

\* Lines 598-599, 601, 605-616 and 639-640: the callbacks handed to the VM.
TimelineCallbacks ==
  {"EmbedderTimelineStartRecording", "EmbedderTimelineStopRecording"}
FileCallbacks == {"DartFileModifiedCallback"}
InitializeCallbacks ==
  {"IsolateCreateCallback", "IsolateShutdownCallback", "ThreadExitCallback",
   "GetVMServiceAssetsArchiveCallback"}
StreamCallbacks == {"ServiceStreamListenCallback", "ServiceStreamCancelCallback"}

\* The VM after one InitDartVM that ran to its end.
RunningVM ==
  [flags_set |-> 1, debugger |-> ~build.product, initialized |-> 1,
   callbacks |-> TimelineCallbacks \cup FileCallbacks \cup InitializeCallbacks
                   \cup StreamCallbacks]

\* The call e hands the callbacks `names` to the VM.
Register(c, e, names) ==
  Strict(Ev(c, e), LAMBDA x :
    IF x.fatal THEN x ELSE [x EXCEPT !.vm.callbacks = @ \cup names])

\* Lines 183 and 250: a DartState is allocated; c.state is its address.
AllocState(c, e) ==
  Strict(Ev(c, e), LAMBDA x :
    IF x.fatal THEN x
    ELSE [x EXCEPT !.heap = Append(@, [deleted |-> 0]),
                   !.state = Len(x.heap) + 1])

\* Lines 184-188 and 252-256: Dart_CreateIsolate with dart_state as callback
\* data, and the check of its result.
CreateIsolate(c, ok, handle) ==
  Strict(Ev(c, "Dart_CreateIsolate"), LAMBDA x :
    IF x.fatal THEN x
    ELSE IF ~ok THEN [x EXCEPT !.fatal = TRUE]
    ELSE [x EXCEPT !.isolates =
            Append(@, [handle |-> handle, callback_data |-> x.state,
                       shutdown |-> FALSE])])

(***************************************************************************)
(* Execution mode, dart_init.cc:442-469                                    *)
(***************************************************************************)
\* Address of a snapshot buffer linked into the binary.
LinkedAddr(symbol_name) == 30 + FindAsset(symbol_name)

\* The DART_SYMBOL macro of dart_init.h: with dynamic resolution the
\* platform's _DartSymbolLookup, otherwise the address of the linked symbol.
DART_SYMBOL(rs, symbol_name) ==
  IF ~build.dynamic_resolution THEN [ret |-> LinkedAddr(symbol_name), rs |-> rs]
  ELSE IF build.os = "android" THEN AndroidSymbolLookup(rs, symbol_name)
  ELSE [ret |-> IosSymbolLookup(symbol_name).ret, rs |-> rs]

Lookup(c, symbol_name) ==
  Strict(c, LAMBDA x :
    IF x.fatal THEN x
    ELSE Strict(DART_SYMBOL(x.rs, symbol_name), LAMBDA r :
           [x EXCEPT !.rs = r.rs, !.ptr = r.ret, !.fatal = r.rs.fatal]))

PrecompiledInstructionsSymbolIfPresent(c) ==
  IF build.dynamic_resolution THEN Lookup(c, kInstructionsSnapshotName)
  ELSE Strict(c, LAMBDA x : [x EXCEPT !.ptr = Null])

PrecompiledDataSnapshotSymbolIfPresent(c) ==
  IF build.dynamic_resolution THEN Lookup(c, kDataSnapshotName)
  ELSE Strict(c, LAMBDA x : [x EXCEPT !.ptr = Null])

\* The answer is c.val, and is appended to c.modes.
IsRunningPrecompiledCode(c) ==
  Strict(PrecompiledInstructionsSymbolIfPresent(c), LAMBDA x :
    IF x.fatal THEN x
    ELSE [x EXCEPT !.val = (x.ptr # Null), !.modes = Append(@, x.ptr # Null)])

(***************************************************************************)
(* Flag composition, dart_init.cc:511-580                                  *)
(***************************************************************************)
\* A plausible slip: the execution mode is not consulted.
ShouldEnableCheckedModeAnyMode(c) ==
  Strict(c, LAMBDA x :
    IF x.fatal THEN x
    ELSE [x EXCEPT !.val = IF build.strict THEN TRUE
                           ELSE settings.enable_dart_checked_mode])

\* The answer is c.val.
ShouldEnableCheckedMode(c) ==
  Strict(IsRunningPrecompiledCode(c), LAMBDA x :
    IF x.fatal THEN x
    ELSE IF x.val THEN [x EXCEPT !.val = FALSE]
    ELSE IF build.strict THEN [x EXCEPT !.val = TRUE]
    ELSE [x EXCEPT !.val = settings.enable_dart_checked_mode])

\* The characters operator>> of std::istream skips (std::isspace, "C" locale).
IsSpace(ch) == ch \in {" ", "\t", "\n", "\r", "\f"}

\* std::istream_iterator<std::string> over the characters s[i..]: cur is the
\* token being read ("" when none), acc the tokens read so far.
RECURSIVE SplitFrom(_, _, _, _)
SplitFrom(s, i, cur, acc) ==
  IF i > Len(s) THEN (IF cur = "" THEN acc ELSE Append(acc, cur))
  ELSE IF IsSpace(s[i])
    THEN SplitFrom(s, i + 1, "", IF cur = "" THEN acc ELSE Append(acc, cur))
  ELSE SplitFrom(s, i + 1, cur \o s[i], acc)

\* Lines 566-577.
DartFlags ==
  IF cmdline.has THEN SplitFrom(cmdline.value, 1, "", <<>>) ELSE <<>>

\* A plausible slip: the user's flags are put in front of the defaults and
\* the two settings-driven groups are appended in the other order.
ComposeArgsUserFirst(precompiled, checked) ==
  DartFlags
  \o <<"--ignore-unrecognized-flags">>
  \o kDartProfilingArgs
  \o kDartMirrorsArgs
  \o kDartBackgroundCompilationArgs
  \o (IF precompiled THEN kDartPrecompilationArgs ELSE <<>>)
  \o (IF checked THEN kDartCheckedModeArgs ELSE <<>>)
  \o (IF settings.trace_startup THEN kDartTraceStartupArgs ELSE <<>>)
  \o (IF settings.start_paused THEN kDartStartPausedArgs ELSE <<>>)

\* Lines 541-580: args after each append, given what the two mode queries
\* at lines 554 and 557 answered.
ComposeArgs(precompiled, checked) ==
  LET a1 == <<"--ignore-unrecognized-flags">>
      a2 == a1 \o kDartProfilingArgs
      a3 == a2 \o kDartMirrorsArgs
      a4 == a3 \o kDartBackgroundCompilationArgs
      a5 == IF precompiled THEN a4 \o kDartPrecompilationArgs ELSE a4
      a6 == IF checked THEN a5 \o kDartCheckedModeArgs ELSE a5
      a7 == IF settings.start_paused THEN a6 \o kDartStartPausedArgs ELSE a6
      a8 == IF settings.trace_startup THEN a7 \o kDartTraceStartupArgs ELSE a7
  IN a8 \o DartFlags

\* Lines 541-581: the two mode queries, the flag vector and Dart_SetVMFlags.
SetVMFlags(c, accept) ==
  Strict(ShouldEnableCheckedMode(IsRunningPrecompiledCode(c)), LAMBDA x :
    IF x.fatal THEN x
    ELSE Strict(Check(Ev([x EXCEPT !.args = ComposeArgs(x.modes[1], x.val)],
                         "Dart_SetVMFlags"),
                      accept),
                LAMBDA y :
                  IF y.fatal THEN y ELSE [y EXCEPT !.vm.flags_set = @ + 1]))

(***************************************************************************)
(* InitDartVM, dart_init.cc:525-641                                        *)
(* accept: Dart_SetVMFlags returns true; init_ok: Dart_Initialize returns  *)
(* no error.                                                               *)
(***************************************************************************)
\* Lines 583-589.
InitDebugger(c) ==
  IF build.product THEN c
  ELSE Strict(Ev(c, "DartDebugger::InitDebugger"), LAMBDA x :
         IF x.fatal THEN x ELSE [x EXCEPT !.vm.debugger = TRUE])

\* A plausible slip: an error reported by Dart_Initialize is not fatal.
InitializeErrorIgnored(c, init_ok) ==
  Strict(Register(c, "Dart_Initialize", InitializeCallbacks), LAMBDA x :
    IF x.fatal \/ ~init_ok THEN x ELSE [x EXCEPT !.vm.initialized = @ + 1])

\* Lines 605-619: Dart_Initialize is handed the isolate callbacks; an error
\* it reports is fatal.
Initialize(c, init_ok) ==
  Strict(Check(Register(c, "Dart_Initialize", InitializeCallbacks), init_ok),
         LAMBDA x : IF x.fatal THEN x ELSE [x EXCEPT !.vm.initialized = @ + 1])

\* A plausible slip: the tracing and file-modified callbacks are registered
\* after Dart_Initialize.
InitDartVMRunInitializeFirst(c0, accept, init_ok) ==
  LET c1 == Ev(EvIf(Ev(c0, "BootstrapDartIo"), settings.temp_directory_path # "",
                    "SetSystemTempDirectory"),
               "HandleWatcher::Start")
      c2 == SetVMFlags(c1, accept)
      c3 == EvIf(Ev(InitDebugger(c2), "DartUI::InitForGlobal"),
                 build.os = "android", "DartJni::InitForGlobal")
      c4 == PrecompiledDataSnapshotSymbolIfPresent(
              PrecompiledInstructionsSymbolIfPresent(
                Lookup(c3, kDartVmIsolateSnapshotBufferName)))
      c5 == Register(
              Register(Initialize(c4, init_ok),
                       "Dart_SetEmbedderTimelineCallbacks", TimelineCallbacks),
              "Dart_SetFileModifiedCallback", FileCallbacks)
  IN Register(EvIf(c5, settings.engine_main_enter_ts # 0, "Dart_TimelineEvent"),
              "Dart_SetServiceStreamCallbacks", StreamCallbacks)

InitDartVMRun(c0, accept, init_ok) ==
  LET c1 == Ev(EvIf(Ev(c0, "BootstrapDartIo"), settings.temp_directory_path # "",
                    "SetSystemTempDirectory"),
               "HandleWatcher::Start")
      c2 == SetVMFlags(c1, accept)
      c3 == Register(
              Register(
                EvIf(Ev(InitDebugger(c2), "DartUI::InitForGlobal"),
                     build.os = "android", "DartJni::InitForGlobal"),
                "Dart_SetEmbedderTimelineCallbacks", TimelineCallbacks),
              "Dart_SetFileModifiedCallback", FileCallbacks)
      c4 == PrecompiledDataSnapshotSymbolIfPresent(
              PrecompiledInstructionsSymbolIfPresent(
                Lookup(c3, kDartVmIsolateSnapshotBufferName)))
      c5 == Initialize(c4, init_ok)
  IN Register(EvIf(c5, settings.engine_main_enter_ts # 0, "Dart_TimelineEvent"),
              "Dart_SetServiceStreamCallbacks", StreamCallbacks)

NewContext ==
  [trace |-> <<>>, modes |-> <<>>, val |-> FALSE, args |-> NoFlags,
   rs |-> [mapping |-> mapping, nextAddr |-> nextAddr, fatal |-> FALSE],
   g |-> [initialized |-> g_service_isolate_initialized,
          hook |-> g_service_isolate_hook,
          ext_hook |-> g_register_native_service_protocol_extensions_hook,
          fatal |-> FALSE],
   vm |-> vm, heap |-> dart_states, isolates |-> isolates, state |-> Null,
   hooks |-> <<>>,
   ptr |-> Null, fatal |-> FALSE]

InitDartVM ==
  /\ ~fatal
  /\ vmCalls < MaxCalls
  /\ \E accept \in BOOL, init_ok \in BOOL :
       \E c \in {InitDartVMRun(NewContext, accept, init_ok)} :
         /\ c.rs.nextAddr <= MaxMaps
         /\ mapping' = c.rs.mapping
         /\ nextAddr' = c.rs.nextAddr
         /\ fatal' = c.fatal
         /\ vm' = c.vm
         /\ modes_seen' = modes_seen \cup Range(c.modes)
         /\ last' = [op |-> "InitDartVM", log |-> c.trace, args |-> c.args,
                     modes |-> c.modes, accept |-> accept, init_ok |-> init_ok]
  /\ vmCalls' = vmCalls + 1
  /\ UNCHANGED << inputVars, createVars, isolateVars, assetFile, thr, seen, streamVars, tracingVars,
                  serviceVars >>

(***************************************************************************)
(* DartFileModifiedCallback, dart_init.cc:140-159                          *)
(* A URL or path is the sequence of its characters.  files maps a path to  *)
(* [exists, last_modified], last_modified in microseconds since the epoch  *)
(* (the resolution of base::Time).                                         *)
(***************************************************************************)
kMillisecondsPerSecond == 1000
kMicrosecondsPerMillisecond == 1000
kMicrosecondsPerSecond == 1000000

kFileScheme == <<"f", "i", "l", "e", ":">>

\* base::StartsWith, case sensitive.
StartsWith(str, prefix) ==
  /\ Len(str) >= Len(prefix)
  /\ \A i \in 1..Len(prefix) : str[i] = prefix[i]

\* Offsets (0-based) at or after `offset` where `find` occurs in str.
Occurrences(str, offset, find) ==
  {k \in offset..(Len(str) - Len(find)) :
     \A i \in 1..Len(find) : str[k + i] = find[i]}

\* base::ReplaceFirstSubstringAfterOffset(&str, offset, find, replace).
ReplaceFirstSubstringAfterOffset(str, offset, find, replace) ==
  LET occ == Occurrences(str, offset, find) IN
  IF occ = {} THEN str
  ELSE LET k == CHOOSE x \in occ : \A y \in occ : x <= y IN
       SubSeq(str, 1, k) \o replace \o SubSeq(str, k + Len(find) + 1, Len(str))

\* base::GetFileInfo(path, &file_info): [ok, last_modified].
GetFileInfo(path) ==
  IF path \in DOMAIN files /\ files[path].exists
    THEN [ok |-> TRUE, last_modified |-> files[path].last_modified]
    ELSE [ok |-> FALSE, last_modified |-> 0]

\* C++ integer division truncates toward zero.
TruncDiv(a, b) == IF a >= 0 THEN a \div b ELSE -((-a) \div b)

\* base::Time::FromTimeT and base::TimeDelta::FromMilliseconds, in microseconds.
FromTimeT(seconds) == seconds * kMicrosecondsPerSecond
FromMilliseconds(ms) == ms * kMicrosecondsPerMillisecond

\* A plausible slip: the sub-second part of since_ms is dropped.
SinceTimeWholeSeconds(since_ms) ==
  FromTimeT(TruncDiv(since_ms, kMillisecondsPerSecond))

\* Lines 153-157.
SinceTime(since_ms) ==
  LET since_seconds == TruncDiv(since_ms, kMillisecondsPerSecond)
      since_milliseconds == since_ms - (since_seconds * kMillisecondsPerSecond)
  IN FromTimeT(since_seconds) + FromMilliseconds(since_milliseconds)

DartFileModifiedCallbackResult(source_url, since_ms) ==
  IF ~StartsWith(source_url, kFileScheme) THEN TRUE
  ELSE LET path == ReplaceFirstSubstringAfterOffset(source_url, 0, kFileScheme, <<>>)
           file_info == GetFileInfo(path)
       IN IF ~file_info.ok THEN TRUE
          ELSE file_info.last_modified > SinceTime(since_ms)

(***************************************************************************)
(* Service stream callbacks, dart_init.cc:301-321                          *)
(***************************************************************************)
kStdoutStreamId == "Stdout"
kStderrStreamId == "Stderr"

\* A plausible slip: the comparison ignores case.
ListenResultAnyCase(stream_id) ==
  stream_id \in {kStdoutStreamId, kStderrStreamId, "stdout", "stderr"}

\* The value ServiceStreamListenCallback returns.
ListenResult(stream_id) ==
  IF stream_id = kStdoutStreamId THEN TRUE
  ELSE IF stream_id = kStderrStreamId THEN TRUE
  ELSE FALSE

\* A plausible slip: the else branch captures stderr for every other id.
SetCaptureElseStderr(cap, stream_id, on) ==
  IF stream_id = kStdoutStreamId THEN [cap EXCEPT !.stdout = on]
  ELSE [cap EXCEPT !.stderr = on]

\* dart::bin::SetCaptureStdout / SetCaptureStderr as both callbacks select them.
SetCapture(cap, stream_id, on) ==
  IF stream_id = kStdoutStreamId THEN [cap EXCEPT !.stdout = on]
  ELSE IF stream_id = kStderrStreamId THEN [cap EXCEPT !.stderr = on]
  ELSE cap

(***************************************************************************)
(* Embedder tracing callbacks, dart_init.cc:471-498                        *)
(* g_tracing_callbacks is [set, start, stop]: set is FALSE for a null      *)
(* unique_ptr.                                                             *)
(***************************************************************************)
NoCallbacks == [set |-> FALSE, start |-> "-", stop |-> "-"]

\* A plausible slip: a pair already stored is kept.
StoreCallbacksOnce(current, callbacks) ==
  IF current.set THEN current ELSE callbacks

\* Line 481.
StoreCallbacks(current, callbacks) == callbacks

\* A plausible slip: the null check is on the wrong side / the wrong member runs.
RunStartCallbackSwapped(callbacks, inv) ==
  IF ~callbacks.set THEN inv
  ELSE [inv EXCEPT ![callbacks.stop] = @ + 1]

\* Lines 485-489: the invocation counts after EmbedderTimelineStartRecording.
RunStartCallback(callbacks, inv) ==
  IF ~callbacks.set THEN inv
  ELSE [inv EXCEPT ![callbacks.start] = @ + 1]

\* Lines 493-497.
RunStopCallback(callbacks, inv) ==
  IF ~callbacks.set THEN inv
  ELSE [inv EXCEPT ![callbacks.stop] = @ + 1]


(***************************************************************************)
(* Hook registration, dart_init.cc:130-133 and 500-509                     *)
(* g = [initialized, hook, ext_hook, fatal] holds the three globals and    *)
(* whether an FTL_CHECK / CHECK has ended the process.                     *)
(***************************************************************************)
\* A plausible slip: the check is missing and a late call is accepted.
SetServiceIsolateHookUnchecked(g, hook) == [g EXCEPT !.hook = hook]

SetServiceIsolateHookOn(g, hook) ==
  IF g.initialized THEN [g EXCEPT !.fatal = TRUE]
  ELSE [g EXCEPT !.hook = hook]

SetRegisterNativeServiceProtocolExtensionHookOn(g, hook) ==
  IF g.initialized THEN [g EXCEPT !.fatal = TRUE]
  ELSE [g EXCEPT !.ext_hook = hook]

\* What an embedder hook does when the core invokes it: "quiet" touches
\* nothing of this file, "registrar" calls SetServiceIsolateHook.
Hooks == {"nullptr", "quiet", "registrar"}

RunHook(g, hook) ==
  IF hook = "registrar" THEN SetServiceIsolateHookOn(g, "quiet") ELSE g

(***************************************************************************)
(* Isolate creation, dart_init.cc:167-289                                  *)
(***************************************************************************)
\* A tonic::DartApiScope is open after the calls in trace.
InScope(trace) ==
  "DartApiScope+" \in Range(trace) /\ "DartApiScope-" \notin Range(trace)

\* The hook stored in g[field], if any, is called with the execution mode;
\* c.hooks records the call: the hook, its argument, the initialized flag and
\* the scope at the time, and whether a registration the hook made passed.
InvokeIfSet(c, field, name) ==
  Strict(c, LAMBDA x :
    IF x.fatal \/ x.g[field] = "nullptr" THEN x
    ELSE Strict(IsRunningPrecompiledCode(x), LAMBDA y :
           IF y.fatal THEN y
           ELSE Strict(RunHook(y.g, y.g[field]), LAMBDA g2 :
                  [y EXCEPT !.trace = Append(@, name), !.g = g2,
                            !.fatal = g2.fatal,
                            !.hooks = Append(@,
                               [name |-> name, hook |-> y.g[field],
                                argument |-> y.val,
                                initialized |-> y.g.initialized,
                                in_scope |-> InScope(y.trace),
                                accepted |-> ~g2.fatal])])))

kFileUriPrefix == <<"f", "i", "l", "e", ":", "/", "/">>
DART_VM_SERVICE_ISOLATE_NAME == <<"v", "m", "-", "s", "e", "r", "v", "i", "c", "e">>
NullUri == <<NullName>>

\* A plausible slip: a prefix comparison instead of equality.
IsServiceIsolateURLPrefix(url_name) ==
  url_name # NullUri /\ StartsWith(url_name, DART_VM_SERVICE_ISOLATE_NAME)

IsServiceIsolateURL(url_name) ==
  url_name # NullUri /\ url_name = DART_VM_SERVICE_ISOLATE_NAME

\* env: what the VM and the collaborators answer during one invocation.
\* At most one of the answers is out of the ordinary (a failure, or an empty
\* snapshot asset): nothing runs after the first failure.
AllEnvs ==
  [create_ok : BOOL, is_service : BOOL, tag_ok : BOOL, startup_ok : BOOL,
   asset : {"missing", "empty", "data"}, load_ok : BOOL, runnable_ok : BOOL,
   null_uri_crash : BOOL]

Failures(e) ==
  {f \in {"create_ok", "is_service", "tag_ok", "startup_ok", "load_ok",
          "runnable_ok"} : ~e[f]}
  \cup (IF e.asset # "data" THEN {"asset"} ELSE {})
  \cup (IF e.null_uri_crash THEN {"null_uri_crash"} ELSE {})

Envs == {e \in AllEnvs : Cardinality(Failures(e)) <= 1}

\* Lines 198-207.
StartObservatory(c, env) ==
  IF settings.enable_observatory
    THEN Check(Ev(IsRunningPrecompiledCode(c), "DartServiceIsolate::Startup"),
               env.startup_ok)
    ELSE c

\* A plausible slip: the flag is toggled, so a second creation resets it.
SetInitializedToggle(c) ==
  Strict(c, LAMBDA x :
    IF x.fatal THEN x
    ELSE [x EXCEPT !.g.initialized = ~@,
                   !.trace = Append(@, "g_service_isolate_initialized = true")])

\* Line 214.
SetInitialized(c) ==
  Strict(c, LAMBDA x :
    IF x.fatal THEN x
    ELSE [x EXCEPT !.g.initialized = TRUE,
                   !.trace = Append(@, "g_service_isolate_initialized = true")])

Return(c, handle) ==
  Strict(c, LAMBDA x : [x EXCEPT !.ptr = IF x.fatal THEN Null ELSE handle])

\* A plausible slip: the initialized flag is set before the post-creation
\* hook runs.
ServiceIsolateBootstrapFlagFirst(c0, env, handle) ==
  LET c1 == Lookup(AllocState(c0, "new DartState"), kDartIsolateSnapshotBufferName)
      c2 == CreateIsolate(c1, env.create_ok, handle)
      c3 == Check(Ev(Ev(c2, "SetIsolate"), "Dart_IsServiceIsolate"), env.is_service)
      c4 == Check(Ev(c3, "Dart_SetLibraryTagHandler"), env.tag_ok)
      c5 == Ev(Ev(Ev(Ev(Ev(c4, "DartApiScope+"), "DartIO::InitForIsolate"),
                     "DartUI::InitForIsolate"), "DartMojoInternal::InitForIsolate"),
               "DartRuntimeHooks::Install")
      c6 == StartObservatory(c5, env)
      c7 == InvokeIfSet(SetInitialized(c6), "hook", "g_service_isolate_hook")
      c8 == Ev(Ev(c7, "DartApiScope-"), "Dart_ExitIsolate")
      c9 == c8
      c10 == InvokeIfSet(c9, "ext_hook",
                         "g_register_native_service_protocol_extensions_hook")
  IN Return(c10, handle)

\* Lines 181-221, the callback of a build with diagnostics.  The handle of
\* the isolate is `handle`.
ServiceIsolateBootstrap(c0, env, handle) ==
  LET c1 == Lookup(AllocState(c0, "new DartState"), kDartIsolateSnapshotBufferName)
      c2 == CreateIsolate(c1, env.create_ok, handle)
      c3 == Check(Ev(Ev(c2, "SetIsolate"), "Dart_IsServiceIsolate"), env.is_service)
      c4 == Check(Ev(c3, "Dart_SetLibraryTagHandler"), env.tag_ok)
      c5 == Ev(Ev(Ev(Ev(Ev(c4, "DartApiScope+"), "DartIO::InitForIsolate"),
                     "DartUI::InitForIsolate"), "DartMojoInternal::InitForIsolate"),
               "DartRuntimeHooks::Install")
      c6 == StartObservatory(c5, env)
      c7 == InvokeIfSet(c6, "hook", "g_service_isolate_hook")
      c8 == Ev(Ev(c7, "DartApiScope-"), "Dart_ExitIsolate")
      c9 == SetInitialized(c8)
      c10 == InvokeIfSet(c9, "ext_hook",
                         "g_register_native_service_protocol_extensions_hook")
  IN Return(c10, handle)

\* A plausible slip: the product build keeps the diagnostics callback.
ServiceIsolateCreateCallbackAnyBuild(c0, env, handle) ==
  ServiceIsolateBootstrap(c0, env, handle)

\* Lines 172-221: #ifdef FLUTTER_PRODUCT_MODE the callback returns nullptr.
ServiceIsolateCreateCallbackRun(c0, env, handle) ==
  IF build.product THEN Return(c0, Null)
  ELSE ServiceIsolateBootstrap(c0, env, handle)

\* Lines 238-246: the snapshot is fetched unless the code is precompiled;
\* c.val tells whether snapshot_data is non-empty afterwards.
FetchSnapshot(c, script_uri, env) ==
  Strict(IsRunningPrecompiledCode(c), LAMBDA x :
    IF x.fatal THEN x
    ELSE IF x.val THEN [x EXCEPT !.val = FALSE]
    ELSE Strict(Check(Ev(Ev(Check(Ev(x, "StartsWith(file://)"),
                                  StartsWith(script_uri, kFileUriPrefix)),
                            "ZipAssetBundle"),
                         "GetAsBuffer(snapshot_blob.bin)"),
                      env.asset # "missing"),
                LAMBDA y : [y EXCEPT !.val = (env.asset = "data")]))

\* Lines 277-280.
LoadSnapshot(c, nonempty, env) ==
  IF nonempty THEN Check(Ev(c, "Dart_LoadScriptFromSnapshot"), env.load_ok)
  ELSE c

\* Lines 248-288, with snapshot_data non-empty iff c.val.
CreateSecondaryIsolate(c, script_uri, env, handle) ==
  Strict(c, LAMBDA x :
    LET s2 == Lookup(AllocState(x, "CreateForChildIsolate"),
                     kDartIsolateSnapshotBufferName)
        s3 == CreateIsolate(s2, env.create_ok, handle)
        s4 == Check(Ev(Ev(s3, "SetIsolate"), "Dart_SetLibraryTagHandler"),
                    env.tag_ok)
        s5 == Ev(Ev(Ev(Ev(s4, "DartApiScope+"), "DartIO::InitForIsolate"),
                    "DartUI::InitForIsolate"), "DartMojoInternal::InitForIsolate")
        \* std::string built from a null script_uri: undefined behaviour
        s6 == Ev(Check(s5, ~(script_uri = NullUri /\ env.null_uri_crash)),
                 "DartRuntimeHooks::Install")
        s7 == Ev(s6, "add_provider(ui)")
        s8 == EvIf(EvIf(s7, build.os = "android", "DartJni::InitForIsolate"),
                   build.os = "android", "add_provider(jni)")
        s9 == LoadSnapshot(s8, x.val, env)
        s10 == Ev(Ev(Ev(s9, "DidCreateSecondaryIsolate"), "DartApiScope-"),
                  "Dart_ExitIsolate")
    IN Check(Ev(s10, "Dart_IsolateMakeRunnable"), env.runnable_ok))

\* Lines 225-289.
IsolateCreateCallbackRun(c0, script_uri, env, handle) ==
  IF IsServiceIsolateURL(script_uri)
    THEN ServiceIsolateCreateCallbackRun(Ev(c0, "ServiceIsolateCreateCallback"),
                                         env, handle)
    ELSE Return(CreateSecondaryIsolate(FetchSnapshot(c0, script_uri, env),
                                       script_uri, env, handle),
                handle)

(***************************************************************************)
(* The callbacks the VM invokes, as actions                                *)
(***************************************************************************)
Urls ==
  { <<"f", "i", "l", "e", ":", "/", "a">>,
    <<"f", "i", "l", "e", ":", "/", "b">>,
    <<"f", "i", "l", "e", ":", "/", "c">>,
    <<"f", "i", "l", "e", ":">>,
    <<"F", "i", "l", "e", ":", "/", "a">>,
    <<"h", "t", "t", "p", ":", "/", "a">>,
    <<"/", "a", "f", "i", "l", "e", ":">>,
    <<"f", "i", "l", "e">>,
    <<>> }

FilePaths == { <<"/", "a">>, <<"/", "b">> }

SinceValues ==
  {sec * kMillisecondsPerSecond + ms : sec \in 0..MaxTimeSec, ms \in {0, 1, 999}}

ModifiedTimes ==
  {ms * kMicrosecondsPerMillisecond + us : ms \in SinceValues, us \in {0, 1}}

FileStats ==
  {[exists |-> FALSE, last_modified |-> 0]}
  \cup {[exists |-> TRUE, last_modified |-> t] : t \in ModifiedTimes}

DartFileModifiedCallback(source_url, since_ms) ==
  /\ ~fatal
  /\ "DartFileModifiedCallback" \in vm.callbacks
  /\ last' = [op |-> "DartFileModifiedCallback", source_url |-> source_url,
              since_ms |-> since_ms,
              ret |-> DartFileModifiedCallbackResult(source_url, since_ms)]
  /\ UNCHANGED << inputVars, createVars, vmVars, androidVars, streamVars, tracingVars, serviceVars,
                  vmCalls, fatal >>

StreamIds == {"Stdout", "Stderr", "Unknown", "stdout", "StdoutStderr", ""}

ServiceStreamListenCallback(stream_id) ==
  /\ ~fatal
  /\ "ServiceStreamListenCallback" \in vm.callbacks
  /\ Len(streamLog) < MaxCalls
  /\ capture' = (IF ListenResult(stream_id)
                   THEN SetCapture(capture, stream_id, TRUE) ELSE capture)
  /\ streamLog' = Append(streamLog, [op |-> "listen", id |-> stream_id])
  /\ last' = [op |-> "ServiceStreamListenCallback", id |-> stream_id,
              ret |-> ListenResult(stream_id), before |-> capture]
  /\ UNCHANGED << inputVars, createVars, vmVars, androidVars, tracingVars, serviceVars, vmCalls, fatal >>

ServiceStreamCancelCallback(stream_id) ==
  /\ ~fatal
  /\ "ServiceStreamCancelCallback" \in vm.callbacks
  /\ Len(streamLog) < MaxCalls
  /\ capture' = SetCapture(capture, stream_id, FALSE)
  /\ streamLog' = Append(streamLog, [op |-> "cancel", id |-> stream_id])
  /\ last' = [op |-> "ServiceStreamCancelCallback", id |-> stream_id,
              ret |-> FALSE, before |-> capture]
  /\ UNCHANGED << inputVars, createVars, vmVars, androidVars, tracingVars, serviceVars, vmCalls, fatal >>

Callbacks == {"f", "g", "h"}

CallbackPairs ==
  {NoCallbacks} \cup [set : {TRUE}, start : Callbacks, stop : Callbacks]

SetEmbedderTracingCallbacks(callbacks) ==
  /\ ~fatal
  /\ vmCalls < MaxCalls
  /\ vmCalls' = vmCalls + 1
  /\ g_tracing_callbacks' = StoreCallbacks(g_tracing_callbacks, callbacks)
  /\ lastSetCallbacks' = callbacks
  /\ last' = [op |-> "SetEmbedderTracingCallbacks", before |-> invoked]
  /\ UNCHANGED << inputVars, createVars, vmVars, androidVars, streamVars, serviceVars, invoked, fatal >>

EmbedderTimelineStartRecording ==
  /\ ~fatal
  /\ "EmbedderTimelineStartRecording" \in vm.callbacks
  /\ \A c \in Callbacks : invoked[c] < MaxInvoked
  /\ invoked' = RunStartCallback(g_tracing_callbacks, invoked)
  /\ last' = [op |-> "EmbedderTimelineStartRecording", before |-> invoked]
  /\ UNCHANGED << inputVars, createVars, vmVars, androidVars, streamVars, serviceVars, vmCalls, fatal,
                  g_tracing_callbacks, lastSetCallbacks >>

EmbedderTimelineStopRecording ==
  /\ ~fatal
  /\ "EmbedderTimelineStopRecording" \in vm.callbacks
  /\ \A c \in Callbacks : invoked[c] < MaxInvoked
  /\ invoked' = RunStopCallback(g_tracing_callbacks, invoked)
  /\ last' = [op |-> "EmbedderTimelineStopRecording", before |-> invoked]
  /\ UNCHANGED << inputVars, createVars, vmVars, androidVars, streamVars, serviceVars, vmCalls, fatal,
                  g_tracing_callbacks, lastSetCallbacks >>


(***************************************************************************)
(* _DartSymbolLookup (Android) as the steps of one calling thread.  The    *)
(* cache entry is read at line 403, written at line 426 and read again at  *)
(* line 430, with no lock: each access is a step of its own.               *)
(***************************************************************************)
Threads == {"t1", "t2"}

LookupNames == {kInstructionsSnapshotName, kDataSnapshotName, "kUnregistered"}

IdleThread ==
  [pc |-> "idle", name |-> "", idx |-> 0, symbol |-> Null, io |-> FALSE,
   dir |-> FALSE, done |-> FALSE, ret |-> Null, with |-> {}]

Unseen == [known |-> FALSE, ret |-> Null]

\* The call of thread t returns ret.
Returned(t, ret, io, dir) ==
  /\ thr' = [thr EXCEPT ![t].pc = "idle", ![t].done = TRUE, ![t].ret = ret,
                        ![t].io = io, ![t].dir = dir]
  /\ seen' = [seen EXCEPT ![thr[t].name] = [known |-> TRUE, ret |-> ret]]
  /\ last' = [op |-> "_DartSymbolLookup", thread |-> t, name |-> thr[t].name,
              ret |-> ret, prev |-> seen[thr[t].name], io |-> io, dir |-> dir]

\* Lines 399-405 and, for a name the table does not hold, line 433.
LookupCall(t, symbol_name) ==
  /\ ~fatal
  /\ thr[t].pc = "idle"
  /\ vmCalls < MaxCalls
  /\ vmCalls' = vmCalls + 1
  /\ LET i == FindAsset(symbol_name)
         same == {u \in Threads \ {t} : thr[u].pc # "idle" /\ thr[u].name = symbol_name}
         entered == [u \in Threads |->
                       IF u = t
                         THEN [IdleThread EXCEPT !.name = symbol_name, !.idx = i,
                                                 !.with = same]
                       ELSE IF u \in same
                         THEN [thr[u] EXCEPT !.with = @ \cup {t}]
                       ELSE thr[u]]
     IN IF i = 0 \/ AlreadyMapped(mapping, i)
          THEN /\ thr' = [entered EXCEPT ![t].done = TRUE,
                                         ![t].ret = IF i = 0 THEN Null ELSE mapping[i]]
               /\ seen' = [seen EXCEPT ![symbol_name] =
                             [known |-> TRUE,
                              ret |-> IF i = 0 THEN Null ELSE mapping[i]]]
               /\ last' = [op |-> "_DartSymbolLookup", thread |-> t,
                           name |-> symbol_name,
                           ret |-> IF i = 0 THEN Null ELSE mapping[i],
                           prev |-> seen[symbol_name], io |-> FALSE, dir |-> FALSE]
          ELSE /\ thr' = [entered EXCEPT ![t].pc = "map"]
               /\ UNCHANGED << seen, last >>
  /\ UNCHANGED << inputVars, createVars, vmVars, assetFile, mapping, nextAddr, streamVars, tracingVars,
                  serviceVars, fatal >>

\* The same call made while no other thread is inside _DartSymbolLookup.
SeqLookupCall(t, symbol_name) ==
  /\ \A u \in Threads : thr[u].pc = "idle"
  /\ LookupCall(t, symbol_name)

\* Lines 407-425.
LookupMap(t) ==
  /\ ~fatal
  /\ thr[t].pc = "map"
  /\ LET m == MapAsset(thr[t].idx, nextAddr) IN
       /\ NextAfter(m, nextAddr) <= MaxMaps
       /\ nextAddr' = NextAfter(m, nextAddr)
       /\ IF m.kind = "fatal"
            THEN /\ fatal' = TRUE
                 /\ thr' = [thr EXCEPT ![t].dir = TRUE]
                 /\ UNCHANGED << seen, last >>
          ELSE IF m.kind = "early"
            THEN /\ Returned(t, Null, TRUE, TRUE)
                 /\ UNCHANGED fatal
          ELSE /\ thr' = [thr EXCEPT ![t].pc = "store", ![t].symbol = m.symbol,
                                     ![t].io = TRUE, ![t].dir = TRUE]
               /\ UNCHANGED << seen, last, fatal >>
  /\ UNCHANGED << inputVars, createVars, vmVars, assetFile, mapping, streamVars, tracingVars,
                  serviceVars, vmCalls >>

\* Line 426.
LookupStore(t) ==
  /\ ~fatal
  /\ thr[t].pc = "store"
  /\ mapping' = StoreMapping(mapping, thr[t].idx, thr[t].symbol)
  /\ thr' = [thr EXCEPT ![t].pc = "ret"]
  /\ UNCHANGED << inputVars, createVars, vmVars, assetFile, nextAddr, seen, streamVars, tracingVars,
                  serviceVars, vmCalls, fatal, last >>

\* Lines 428-430.
LookupReturn(t) ==
  /\ ~fatal
  /\ thr[t].pc = "ret"
  /\ Returned(t, mapping[thr[t].idx], TRUE, TRUE)
  /\ UNCHANGED << inputVars, createVars, vmVars, assetFile, mapping, nextAddr, streamVars, tracingVars,
                  serviceVars, vmCalls, fatal >>

\* The environment: an asset file appears, disappears or changes its mode.
FsChange(i, outcome) ==
  /\ ~fatal
  /\ assetFile[i] # outcome
  /\ assetFile' = [assetFile EXCEPT ![i] = outcome]
  /\ UNCHANGED << inputVars, createVars, vmVars, mapping, nextAddr, thr, seen, streamVars, tracingVars,
                  serviceVars, vmCalls, fatal, last >>


\* _DartSymbolLookup (iOS), lines 359-377, as one call.
DartSymbolLookupIos(symbol_name) ==
  /\ ~fatal
  /\ LET r == IosSymbolLookup(symbol_name) IN
       last' = [op |-> "_DartSymbolLookup(ios)", name |-> symbol_name,
                ret |-> r.ret, opened |-> r.opened]
  /\ UNCHANGED << inputVars, createVars, vmVars, androidVars, streamVars, tracingVars, serviceVars,
                  vmCalls, fatal >>

(***************************************************************************)
(* Initial states: the process after static initialisation (lines 130-133, *)
(* 389-394, 471-472), for each build, host configuration and environment.  *)
(***************************************************************************)
Builds ==
  {b \in [os : {"android", "ios", "linux"}, dynamic_resolution : BOOL,
          strict : BOOL, product : BOOL] :
     b.dynamic_resolution => b.os \in {"android", "ios"}}

DefaultBuild ==
  [os |-> "linux", dynamic_resolution |-> FALSE, strict |-> FALSE, product |-> FALSE]

DefaultSettings ==
  [enable_dart_checked_mode |-> FALSE, start_paused |-> FALSE,
   trace_startup |-> FALSE, enable_observatory |-> TRUE,
   aot_snapshot_path |-> "", temp_directory_path |-> "",
   engine_main_enter_ts |-> 1]

FlagChars == {"a", "b", " "}

\* Values that use the other whitespace characters.
TabbedValues == { <<"a", "\t", "b">>, <<"\n", "b", "a">>, <<"\t", " ", "\r">> }

CharSeqs(n) == UNION {[1..k -> FlagChars] : k \in 0..n}

CommandLines ==
  {[has |-> FALSE, value |-> <<>>]}
  \cup {[has |-> TRUE, value |-> v] : v \in CharSeqs(MaxFlagLen) \cup TabbedValues}

IosNames == {kInstructionsSnapshotName, kDataSnapshotName}

\* A symbol table entry: absent, defined with value NULL, or defined at base + k.
SymEntries(base, k) ==
  { [defined |-> FALSE, addr |-> Null], [defined |-> TRUE, addr |-> Null],
    [defined |-> TRUE, addr |-> base + k] }

Dylibs ==
  [present : BOOL,
   app : {[n \in IosNames |-> e[n]] :
            e \in [IosNames -> SymEntries(10, 1) \cup SymEntries(10, 2)]},
   def : {[n \in IosNames |-> e[n]] :
            e \in [IosNames -> SymEntries(20, 1) \cup SymEntries(20, 2)]}]

NoDylib ==
  [present |-> FALSE,
   app |-> [n \in IosNames |-> [defined |-> FALSE, addr |-> Null]],
   def |-> [n \in IosNames |-> [defined |-> FALSE, addr |-> Null]]]

NoFiles == [p \in FilePaths |-> [exists |-> FALSE, last_modified |-> 0]]

InitInputs ==
  /\ build = DefaultBuild
  /\ settings = DefaultSettings
  /\ cmdline = [has |-> FALSE, value |-> <<>>]
  /\ dylib = NoDylib
  /\ files = NoFiles

InitAndroid ==
  /\ mapping = [i \in AssetIdx |-> Null]
  /\ nextAddr = 0
  /\ thr = [t \in Threads |-> IdleThread]
  /\ seen = [n \in LookupNames |-> Unseen]

\* A thread that is not inside IsolateCreateCallback.
IdleCreation ==
  [pc |-> "idle", plan |-> <<>>, fails |-> FALSE, done |-> <<>>,
   script_uri |-> <<>>, load_ok |-> TRUE, handle |-> Null, dart_state |-> Null,
   isolate |-> Null]

\* A thread with no current isolate.
NoActivation == [isolate |-> Null, scope |-> FALSE]

InitGlobals ==
  /\ capture = [stdout |-> FALSE, stderr |-> FALSE]
  /\ creating = [t \in Threads |-> IdleCreation]
  /\ vm_thread = [t \in Threads |-> NoActivation]
  /\ progress = [h \in 1..MaxCalls |-> <<>>]
  /\ streamLog = <<>>
  /\ g_tracing_callbacks = NoCallbacks
  /\ lastSetCallbacks = NoCallbacks
  /\ invoked = [c \in Callbacks |-> 0]
  /\ g_service_isolate_initialized = FALSE
  /\ g_service_isolate_hook = "nullptr"
  /\ g_register_native_service_protocol_extensions_hook = "nullptr"
  /\ vmCalls = 0
  /\ dart_states = <<>>
  /\ isolates = <<>>
  /\ modes_seen = {}
  /\ fatal = FALSE
  /\ last = [op |-> "none"]

(***************************************************************************)
(* Flag composition: InitDartVM over every build, host setting, command    *)
(* line and execution mode.                                                *)
(***************************************************************************)
InitFlags ==
  /\ build \in Builds
  /\ settings \in
       {[DefaultSettings EXCEPT !.enable_dart_checked_mode = c, !.start_paused = p,
                                !.trace_startup = t, !.aot_snapshot_path = d] :
          c \in BOOL, p \in BOOL, t \in BOOL,
          d \in IF build.dynamic_resolution /\ build.os = "android"
                  THEN {"", "/data/aot"} ELSE {""}}
  /\ cmdline \in CommandLines
  /\ dylib \in IF build.dynamic_resolution /\ build.os = "ios"
                 THEN {d \in Dylibs :
                         /\ d.present
                         /\ d.def = NoDylib.def
                         /\ d.app[kDataSnapshotName] = d.app[kInstructionsSnapshotName]
                         /\ d.app[kInstructionsSnapshotName].addr \in {Null, 11}}
                 ELSE {NoDylib}
  /\ files = NoFiles
  /\ assetFile \in IF build.dynamic_resolution /\ build.os = "android"
                     /\ settings.aot_snapshot_path # ""
                     THEN {[i \in AssetIdx |-> o] : o \in Outcomes}
                     ELSE {[i \in AssetIdx |-> "nofile"]}
  /\ InitAndroid
  /\ InitGlobals
  /\ vm = NoVM

NextFlags == InitDartVM

SpecFlags == InitFlags /\ [][NextFlags]_vars


(***************************************************************************)
(* The dynamic-library resolver over every app.dylib and default namespace *)
(***************************************************************************)
InitIos ==
  /\ build = [DefaultBuild EXCEPT !.os = "ios", !.dynamic_resolution = TRUE]
  /\ settings = DefaultSettings
  /\ cmdline = [has |-> FALSE, value |-> <<>>]
  /\ dylib \in Dylibs
  /\ files = NoFiles
  /\ assetFile = [i \in AssetIdx |-> "nofile"]
  /\ InitAndroid
  /\ InitGlobals
  /\ vm = RunningVM

NextIos ==
  \E n \in IosNames \cup {NullName, "kUnregistered"} : DartSymbolLookupIos(n)

SpecIos == InitIos /\ [][NextIos]_vars

(***************************************************************************)
(* The asset-mapping resolver: lookups one after the other (SpecSymSeq)    *)
(* and lookups from two threads at once (SpecSymRace).                     *)
(***************************************************************************)
InitSym ==
  /\ build = [DefaultBuild EXCEPT !.os = "android", !.dynamic_resolution = TRUE]
  /\ settings \in {[DefaultSettings EXCEPT !.aot_snapshot_path = d] :
                     d \in {"", "/data/aot"}}
  /\ cmdline = [has |-> FALSE, value |-> <<>>]
  /\ dylib = NoDylib
  /\ files = NoFiles
  /\ assetFile \in [AssetIdx -> Outcomes]
  /\ \A i \in AssetIdx : g_symbol_assets[i].symbol_name \notin LookupNames
                           => assetFile[i] = "nofile"
  /\ InitAndroid
  /\ InitGlobals
  /\ vm = RunningVM

LookupSteps ==
  \/ \E t \in Threads : LookupMap(t)
  \/ \E t \in Threads : LookupStore(t)
  \/ \E t \in Threads : LookupReturn(t)
  \/ \E i \in AssetIdx, o \in Outcomes :
       g_symbol_assets[i].symbol_name \in LookupNames /\ FsChange(i, o)

NextSymSeq ==
  \/ \E t \in Threads, n \in LookupNames : SeqLookupCall(t, n)
  \/ LookupSteps

NextSymRace ==
  \/ \E t \in Threads, n \in LookupNames : LookupCall(t, n)
  \/ LookupSteps

SpecSymSeq == InitSym /\ [][NextSymSeq]_vars

SpecSymRace == InitSym /\ [][NextSymRace]_vars

(***************************************************************************)
(* The file-modified callback over every file system, URL and timestamp    *)
(***************************************************************************)
InitFile ==
  /\ build = DefaultBuild
  /\ settings = DefaultSettings
  /\ cmdline = [has |-> FALSE, value |-> <<>>]
  /\ dylib = NoDylib
  /\ files \in [FilePaths -> FileStats]
  /\ assetFile = [i \in AssetIdx |-> "nofile"]
  /\ InitAndroid
  /\ InitGlobals
  /\ vm = RunningVM

NextFile ==
  \E u \in Urls, since \in SinceValues : DartFileModifiedCallback(u, since)

SpecFile == InitFile /\ [][NextFile]_vars

(***************************************************************************)
(* The service stream callbacks and the tracing callbacks                  *)
(***************************************************************************)
InitPlain ==
  /\ InitInputs
  /\ assetFile = [i \in AssetIdx |-> "nofile"]
  /\ InitAndroid
  /\ InitGlobals
  /\ vm = RunningVM

NextStream ==
  \/ \E id \in StreamIds : ServiceStreamListenCallback(id)
  \/ \E id \in StreamIds : ServiceStreamCancelCallback(id)

SpecStream == InitPlain /\ [][NextStream]_vars

NextTracing ==
  \/ \E p \in CallbackPairs : SetEmbedderTracingCallbacks(p)
  \/ EmbedderTimelineStartRecording
  \/ EmbedderTimelineStopRecording

SpecTracing == InitPlain /\ [][NextTracing]_vars


(***************************************************************************)
(* Isolate creation and hook registration                                  *)
(***************************************************************************)
Globals ==
  [initialized |-> g_service_isolate_initialized, hook |-> g_service_isolate_hook,
   ext_hook |-> g_register_native_service_protocol_extensions_hook,
   fatal |-> FALSE]

SetGlobals(g) ==
  /\ g_service_isolate_initialized' = g.initialized
  /\ g_service_isolate_hook' = g.hook
  /\ g_register_native_service_protocol_extensions_hook' = g.ext_hook

SetServiceIsolateHook(hook) ==
  /\ ~fatal
  /\ LET g == SetServiceIsolateHookOn(Globals, hook) IN
       /\ SetGlobals(g)
       /\ fatal' = g.fatal
       /\ last' = [op |-> "SetServiceIsolateHook", hook |-> hook, before |-> Globals]
  /\ UNCHANGED << inputVars, createVars, vmVars, androidVars, streamVars, tracingVars, vmCalls >>

SetRegisterNativeServiceProtocolExtensionHook(hook) ==
  /\ ~fatal
  /\ LET g == SetRegisterNativeServiceProtocolExtensionHookOn(Globals, hook) IN
       /\ SetGlobals(g)
       /\ fatal' = g.fatal
       /\ last' = [op |-> "SetRegisterNativeServiceProtocolExtensionHook",
                   hook |-> hook, before |-> Globals]
  /\ UNCHANGED << inputVars, createVars, vmVars, androidVars, streamVars, tracingVars, vmCalls >>

Uris ==
  { NullUri,
    DART_VM_SERVICE_ISOLATE_NAME,
    DART_VM_SERVICE_ISOLATE_NAME \o <<"2">>,
    <<"f", "i", "l", "e", ":", "/", "/", "a">>,
    <<"f", "i", "l", "e", ":", "/", "a">> }

IsolateCreateCallback(script_uri, env) ==
  /\ ~fatal
  /\ "IsolateCreateCallback" \in vm.callbacks
  /\ vmCalls < MaxCalls
  /\ vmCalls' = vmCalls + 1
  /\ \E c \in {IsolateCreateCallbackRun(NewContext, script_uri, env, vmCalls + 1)} :
        /\ c.rs.nextAddr <= MaxMaps
        /\ mapping' = c.rs.mapping
        /\ nextAddr' = c.rs.nextAddr
        /\ SetGlobals(c.g)
        /\ fatal' = c.fatal
        /\ dart_states' = c.heap
        /\ isolates' = c.isolates
        /\ modes_seen' = modes_seen \cup Range(c.modes)
        /\ last' = [op |-> "IsolateCreateCallback", script_uri |-> script_uri,
                    env |-> env, trace |-> c.trace, modes |-> c.modes,
                    hooks |-> c.hooks, before |-> g_service_isolate_initialized,
                    ret |-> c.ptr]
  /\ UNCHANGED << inputVars, createVars, vm, assetFile, thr, seen, streamVars, tracingVars >>

\* A plausible slip: the state is never deleted.
ReleaseStateNever(heap, callback_data) == heap

\* Lines 135-138: delete dart_state.
ReleaseState(heap, callback_data) ==
  [heap EXCEPT ![callback_data].deleted = @ + 1]

\* The VM shuts isolate i down and notifies the embedder, once per isolate.
IsolateShutdownCallback(i) ==
  /\ ~fatal
  /\ "IsolateShutdownCallback" \in vm.callbacks
  /\ i \in DOMAIN isolates
  /\ ~isolates[i].shutdown
  /\ isolates' = [isolates EXCEPT ![i].shutdown = TRUE]
  /\ dart_states' = ReleaseState(dart_states, isolates[i].callback_data)
  /\ last' = [op |-> "IsolateShutdownCallback", isolate |-> isolates[i].handle,
              callback_data |-> isolates[i].callback_data]
  /\ UNCHANGED << inputVars, createVars, vm, modes_seen, androidVars, streamVars, tracingVars,
                  serviceVars, vmCalls, fatal >>

InitIsolates ==
  /\ build \in {b \in Builds : ~b.strict}
  /\ settings \in
       {[DefaultSettings EXCEPT !.enable_observatory = o, !.aot_snapshot_path = d] :
          o \in BOOL,
          d \in IF build.dynamic_resolution /\ build.os = "android"
                  THEN {"", "/data/aot"} ELSE {""}}
  /\ cmdline = [has |-> FALSE, value |-> <<>>]
  /\ dylib \in IF build.dynamic_resolution /\ build.os = "ios"
                 THEN {d \in Dylibs :
                         /\ d.present
                         /\ d.def = NoDylib.def
                         /\ d.app[kDataSnapshotName] = d.app[kInstructionsSnapshotName]
                         /\ d.app[kInstructionsSnapshotName].addr \in {Null, 11}}
                 ELSE {NoDylib}
  /\ files = NoFiles
  /\ assetFile \in IF build.dynamic_resolution /\ build.os = "android"
                     /\ settings.aot_snapshot_path # ""
                     THEN {[i \in AssetIdx |-> o] : o \in {"nofile", "ok"}}
                     ELSE {[i \in AssetIdx |-> "nofile"]}
  /\ InitAndroid
  /\ InitGlobals
  /\ vm = RunningVM

NextIsolates ==
  \/ \E h \in Hooks : SetServiceIsolateHook(h)
  \/ \E h \in Hooks : SetRegisterNativeServiceProtocolExtensionHook(h)
  \/ \E u \in Uris, env \in Envs : IsolateCreateCallback(u, env)

SpecIsolates == InitIsolates /\ [][NextIsolates]_vars


(***************************************************************************)
(* The life of a process: InitDartVM, then the isolates the VM asks for    *)
(* and shuts down, while the asset files may come and go.                  *)
(***************************************************************************)
BootUris ==
  { DART_VM_SERVICE_ISOLATE_NAME,
    <<"f", "i", "l", "e", ":", "/", "/", "a">>,
    <<"h", "t", "t", "p", ":", "/", "/", "a">> }

InitBoot ==
  /\ build \in {b \in Builds : ~b.strict /\ b.os # "ios"}
  /\ settings = [DefaultSettings EXCEPT !.aot_snapshot_path = "/data/aot"]
  /\ cmdline = [has |-> FALSE, value |-> <<>>]
  /\ dylib = NoDylib
  /\ files = NoFiles
  /\ assetFile \in IF build.dynamic_resolution
                     THEN {[i \in AssetIdx |-> o] : o \in {"nofile", "ok"}}
                     ELSE {[i \in AssetIdx |-> "nofile"]}
  /\ InitAndroid
  /\ InitGlobals
  /\ vm = NoVM

\* The host calls InitDartVM once, at process start.
NextBoot ==
  \/ vm = NoVM /\ InitDartVM
  \/ \E u \in BootUris, env \in Envs : IsolateCreateCallback(u, env)
  \/ \E i \in 1..MaxCalls : IsolateShutdownCallback(i)
  \/ \E o \in {"nofile", "ok"} :
       build.dynamic_resolution /\ FsChange(FindAsset(kInstructionsSnapshotName), o)

SpecBoot == InitBoot /\ [][NextBoot]_vars


(***************************************************************************)
(* IsolateCreateCallback for generic URIs on two threads, call by call,    *)
(* dart_init.cc:238-288.  The locals of an invocation (snapshot_data,      *)
(* dart_state, isolate, dart_api_scope) are in creating[t]; the VM keeps   *)
(* the current isolate and the API scope per thread, in vm_thread[t].      *)
(***************************************************************************)
\* The calls made before the invocation has an isolate.
BeforeIsolate ==
  {"StartsWith(file://)", "ZipAssetBundle", "GetAsBuffer(snapshot_blob.bin)",
   "CreateForChildIsolate"}

\* The calls that are handed `isolate` or act through dart_state, which
\* SetIsolate (line 257) ties to `isolate`.
OnLocalIsolate ==
  {"SetIsolate", "add_provider(ui)", "add_provider(jni)",
   "DidCreateSecondaryIsolate", "Dart_IsolateMakeRunnable"}

\* A plausible slip: `isolate` is a static variable, shared by the
\* invocations, and holds the isolate created last.
LocalIsolateStatic(cr, t) ==
  IF isolates = <<>> THEN Null ELSE isolates[Len(isolates)].handle

\* Line 252: `isolate` is a local variable of the invocation.
LocalIsolate(cr, t) == cr[t].isolate

\* The isolate call e of thread t acts on; every other call acts on the
\* current isolate of the calling thread.
Target(t, e) ==
  IF e \in BeforeIsolate THEN Null
  ELSE IF e = "Dart_CreateIsolate" THEN creating[t].handle
  ELSE IF e \in OnLocalIsolate THEN LocalIsolate(creating, t)
  ELSE vm_thread[t].isolate

\* The thread-local state of the VM after thread t made call e with success.
Activate(t, e) ==
  IF e = "Dart_CreateIsolate"
    THEN [vm_thread EXCEPT ![t].isolate = creating[t].handle]
  ELSE IF e = "DartApiScope+" THEN [vm_thread EXCEPT ![t].scope = TRUE]
  ELSE IF e = "DartApiScope-" THEN [vm_thread EXCEPT ![t].scope = FALSE]
  ELSE IF e = "Dart_ExitIsolate" THEN [vm_thread EXCEPT ![t].isolate = Null]
  ELSE vm_thread

CreateUris == { <<"f", "i", "l", "e", ":", "/", "/", "a">> }

\* The answers that let an invocation reach the snapshot load: every call
\* succeeds, or the load fails.
CreateEnvs ==
  {e \in Envs : Failures(e) \subseteq {"load_ok"}}

\* Thread t enters IsolateCreateCallback: the calls it is going to make are
\* those of IsolateCreateCallbackRun, the last of them failing iff that run
\* ends the process.
BeginCreate(t, script_uri, env) ==
  /\ ~fatal
  /\ "IsolateCreateCallback" \in vm.callbacks
  /\ creating[t].pc = "idle"
  /\ vmCalls < MaxCreations
  /\ vmCalls' = vmCalls + 1
  /\ \E c \in {IsolateCreateCallbackRun(NewContext, script_uri, env, vmCalls + 1)} :
       /\ creating' = [creating EXCEPT ![t] =
                         [IdleCreation EXCEPT !.pc = "run", !.plan = c.trace,
                                              !.fails = c.fatal,
                                              !.script_uri = script_uri,
                                              !.load_ok = env.load_ok,
                                              !.handle = vmCalls + 1]]
       /\ modes_seen' = modes_seen \cup Range(c.modes)
  /\ UNCHANGED << inputVars, vm, isolateVars, vm_thread, progress, androidVars,
                  streamVars, tracingVars, serviceVars, fatal, last >>

\* Thread t makes the next call of its invocation; after the last one it
\* returns the isolate, or the process has ended.
StepCreate(t) ==
  /\ ~fatal
  /\ creating[t].pc = "run"
  /\ LET e == Head(creating[t].plan)
         final == Len(creating[t].plan) = 1
         ok == ~(final /\ creating[t].fails)
         target == Target(t, e)
     IN
     /\ fatal' = ~ok
     /\ dart_states' = IF e = "CreateForChildIsolate"
                         THEN Append(dart_states, [deleted |-> 0])
                         ELSE dart_states
     /\ isolates' = IF e = "Dart_CreateIsolate" /\ ok
                      THEN Append(isolates,
                                  [handle |-> creating[t].handle,
                                   callback_data |-> creating[t].dart_state,
                                   shutdown |-> FALSE])
                      ELSE isolates
     /\ vm_thread' = IF ok THEN Activate(t, e) ELSE vm_thread
     /\ progress' =
          IF target = Null \/ (e = "Dart_CreateIsolate" /\ ~ok) THEN progress
          ELSE [progress EXCEPT ![target] =
                  Append(@, [call |-> e, thread |-> t, ok |-> ok,
                             scope |-> vm_thread[t].scope,
                             in_scope_of |->
                               {u \in Threads : /\ vm_thread[u].scope
                                                /\ vm_thread[u].isolate = target},
                             current_on |->
                               {u \in Threads : vm_thread[u].isolate = target}])]
     /\ creating' =
          [creating EXCEPT
             ![t].plan = Tail(@),
             ![t].done = Append(@, e),
             ![t].dart_state = IF e = "CreateForChildIsolate"
                                 THEN Len(dart_states) + 1 ELSE @,
             ![t].isolate = IF e = "Dart_CreateIsolate" /\ ok
                              THEN creating[t].handle ELSE @,
             ![t].pc = IF final THEN (IF ok THEN "idle" ELSE "dead") ELSE "run"]
     /\ last' = IF final
                  THEN [op |-> "IsolateCreateCallback", thread |-> t,
                        script_uri |-> creating[t].script_uri,
                        trace |-> Append(creating[t].done, e),
                        ret |-> IF ok THEN LocalIsolate(creating, t) ELSE Null]
                  ELSE last
  /\ UNCHANGED << inputVars, vm, modes_seen, androidVars, streamVars, tracingVars,
                  serviceVars, vmCalls >>

InitCreate ==
  /\ build \in {b \in Builds : ~b.strict /\ ~b.dynamic_resolution /\ ~b.product
                                /\ b.os # "ios"}
  /\ settings = DefaultSettings
  /\ cmdline = [has |-> FALSE, value |-> <<>>]
  /\ dylib = NoDylib
  /\ files = NoFiles
  /\ assetFile = [i \in AssetIdx |-> "nofile"]
  /\ InitAndroid
  /\ InitGlobals
  /\ vm = RunningVM

NextCreate ==
  \/ \E t \in Threads, u \in CreateUris, env \in CreateEnvs : BeginCreate(t, u, env)
  \/ \E t \in Threads : StepCreate(t)

SpecCreate == InitCreate /\ [][NextCreate]_vars


(***************************************************************************)
(* Properties                                                              *)
(***************************************************************************)
FlagsPassed == last.op = "InitDartVM" /\ last.args # NoFlags

\* The latest answer of IsRunningPrecompiledCode in the latest handler run.
LastMode == last.modes[Len(last.modes)]

\* The four checked-mode flags stand together, in table order, in args.
HasCheckedModeArgs(args) ==
  \E k \in 1..Len(args) :
    /\ k + Len(kDartCheckedModeArgs) - 1 <= Len(args)
    /\ SubSeq(args, k, k + Len(kDartCheckedModeArgs) - 1) = kDartCheckedModeArgs

NoCheckedModeArg(args) == Range(args) \cap Range(kDartCheckedModeArgs) = {}

\* C1: the flag vector handed to Dart_SetVMFlags starts with
\* --ignore-unrecognized-flags, and holds the checked-mode flags iff the code
\* is not precompiled and the build is strict or the host asks for checked
\* mode; with precompiled code none of them is present.
C1_CheckedModeFlags ==
  FlagsPassed =>
    /\ last.args[1] = "--ignore-unrecognized-flags"
    /\ IF ~LastMode /\ (build.strict \/ settings.enable_dart_checked_mode)
         THEN HasCheckedModeArgs(last.args)
         ELSE NoCheckedModeArg(last.args)
    /\ last.modes[1] => NoCheckedModeArg(last.args)

C1_Witness ==
  /\ FlagsPassed
  /\ last.modes[1]
  /\ build.strict
  /\ settings.enable_dart_checked_mode
  /\ NoCheckedModeArg(last.args)

Whitespace == {" ", "\t", "\n", "\r", "\f"}

RECURSIVE Join(_)
Join(chars) == IF chars = <<>> THEN "" ELSE Head(chars) \o Join(Tail(chars))

\* Positions where a maximal run of non-whitespace characters of v begins.
TokenStarts(v) ==
  {i \in 1..Len(v) : v[i] \notin Whitespace /\ (i = 1 \/ v[i - 1] \in Whitespace)}

\* The last position of the run that begins at i.
TokenEnd(v, i) ==
  CHOOSE j \in i..Len(v) :
    /\ \A k \in i..j : v[k] \notin Whitespace
    /\ (j = Len(v) \/ v[j + 1] \in Whitespace)

\* The maximal whitespace-free runs of v, left to right.
Tokens(v) ==
  LET starts == TokenStarts(v)
      nth(k) == CHOOSE i \in starts : Cardinality({j \in starts : j < i}) = k - 1
  IN [k \in 1..Cardinality(starts) |-> Join(SubSeq(v, nth(k), TokenEnd(v, nth(k))))]

ExpectedFlagVector ==
  <<"--ignore-unrecognized-flags">>
  \o kDartProfilingArgs
  \o kDartMirrorsArgs
  \o kDartBackgroundCompilationArgs
  \o (IF last.modes[1] THEN kDartPrecompilationArgs ELSE <<>>)
  \o (IF ~LastMode /\ (build.strict \/ settings.enable_dart_checked_mode)
        THEN kDartCheckedModeArgs ELSE <<>>)
  \o (IF settings.start_paused THEN kDartStartPausedArgs ELSE <<>>)
  \o (IF settings.trace_startup THEN kDartTraceStartupArgs ELSE <<>>)
  \o (IF cmdline.has THEN Tokens(cmdline.value) ELSE <<>>)

\* C2: the flag vector is the fixed-order concatenation of the default
\* groups, the optional groups each under its own condition, and last the
\* whitespace-separated tokens of the --dart-flags value in their order.
C2_FlagVectorOrder == FlagsPassed => last.args = ExpectedFlagVector

C2_Witness ==
  /\ FlagsPassed
  /\ settings.start_paused
  /\ settings.trace_startup
  /\ settings.enable_dart_checked_mode
  /\ ~last.modes[1]
  /\ cmdline.has
  /\ cmdline.value = <<"b", " ", "a">>
  /\ last.args[Len(last.args) - 1] = "b"
  /\ last.args[Len(last.args)] = "a"

\* Calls only the generic path of IsolateCreateCallback makes.
GenericOnlyCalls ==
  {"StartsWith(file://)", "ZipAssetBundle", "GetAsBuffer(snapshot_blob.bin)",
   "CreateForChildIsolate", "add_provider(ui)", "Dart_LoadScriptFromSnapshot",
   "DidCreateSecondaryIsolate", "Dart_IsolateMakeRunnable"}

\* Calls only ServiceIsolateCreateCallback makes.
ServiceOnlyCalls ==
  {"ServiceIsolateCreateCallback", "new DartState", "Dart_IsServiceIsolate",
   "DartServiceIsolate::Startup", "g_service_isolate_hook",
   "g_service_isolate_initialized = true",
   "g_register_native_service_protocol_extensions_hook"}

\* C3: a request for the reserved service-isolate name is handled by
\* ServiceIsolateCreateCallback alone, and a request for any other URI (null
\* included) never reaches it.
C3_ServiceRouting ==
  last.op = "IsolateCreateCallback" =>
    IF last.script_uri = <<"v", "m", "-", "s", "e", "r", "v", "i", "c", "e">>
      THEN /\ last.trace # <<>>
           /\ last.trace[1] = "ServiceIsolateCreateCallback"
           /\ Range(last.trace) \cap GenericOnlyCalls = {}
           /\ build.product =>
                last.trace = <<"ServiceIsolateCreateCallback">> /\ last.ret = Null
      ELSE Range(last.trace) \cap ServiceOnlyCalls = {}

C3_Witness ==
  /\ last.op = "IsolateCreateCallback"
  /\ last.script_uri = DART_VM_SERVICE_ISOLATE_NAME
  /\ last.ret # Null
  /\ last.modes # <<>>
  /\ last.modes[1]
  /\ "g_service_isolate_initialized = true" \in Range(last.trace)

\* C4: once the service isolate is initialized, either hook setter ends the
\* process and stores nothing; before that it stores the hook it is given.
C4_LateHookRegistrationFatal ==
  /\ last.op = "SetServiceIsolateHook" =>
       IF last.before.initialized
         THEN /\ fatal
              /\ g_service_isolate_hook = last.before.hook
              /\ g_register_native_service_protocol_extensions_hook
                   = last.before.ext_hook
         ELSE /\ ~fatal
              /\ g_service_isolate_hook = last.hook
              /\ g_register_native_service_protocol_extensions_hook
                   = last.before.ext_hook
  /\ last.op = "SetRegisterNativeServiceProtocolExtensionHook" =>
       IF last.before.initialized
         THEN /\ fatal
              /\ g_service_isolate_hook = last.before.hook
              /\ g_register_native_service_protocol_extensions_hook
                   = last.before.ext_hook
         ELSE /\ ~fatal
              /\ g_register_native_service_protocol_extensions_hook = last.hook
              /\ g_service_isolate_hook = last.before.hook

C4_Witness ==
  /\ last.op = "SetServiceIsolateHook"
  /\ last.before.initialized
  /\ last.hook # last.before.hook
  /\ fatal


Registered(name) == \E i \in AssetIdx : g_symbol_assets[i].symbol_name = name

Overlapped(t, u) ==
  /\ t # u
  /\ thr[t].pc = "idle" /\ thr[t].done
  /\ thr[u].pc = "idle" /\ thr[u].done
  /\ thr[t].name = thr[u].name
  /\ u \in thr[t].with
  /\ t \in thr[u].with

\* C6: two lookups of one symbol that run at the same time never return
\* different non-null pointers.
C6_RacingLookupsAgree ==
  \A t \in Threads, u \in Threads :
    (Overlapped(t, u) /\ thr[t].ret # Null /\ thr[u].ret # Null)
      => thr[t].ret = thr[u].ret

\* What dlsym finds for name in a table.
Defined(table, name) ==
  IF name \in DOMAIN table /\ table[name].defined THEN table[name].addr ELSE Null

AppAddress(name) ==
  IF name # NullName /\ dylib.present THEN Defined(dylib.app, name) ELSE Null

DefaultAddress(name) == IF name # NullName THEN Defined(dylib.def, name) ELSE Null

\* C7: an address app.dylib gives is returned even when the default
\* namespace defines the symbol too; the default namespace is searched only
\* when app.dylib gave none; and when neither gives one the result is null,
\* with the process still running.
C7_AppLibraryFirst ==
  last.op = "_DartSymbolLookup(ios)" =>
    /\ ~fatal
    /\ AppAddress(last.name) # Null =>
         (last.ret = AppAddress(last.name)
          /\ DefaultNamespace \notin Range(last.opened))
    /\ DefaultNamespace \in Range(last.opened) => AppAddress(last.name) = Null
    /\ AppAddress(last.name) = Null => last.ret = DefaultAddress(last.name)

C7_Witness ==
  /\ last.op = "_DartSymbolLookup(ios)"
  /\ AppAddress(last.name) # Null
  /\ DefaultAddress(last.name) # Null
  /\ AppAddress(last.name) # DefaultAddress(last.name)
  /\ last.ret = AppAddress(last.name)

HasFileScheme(url) ==
  Len(url) >= 5 /\ SubSeq(url, 1, 5) = <<"f", "i", "l", "e", ":">>

\* C8: the callback answers "modified" for a URL without the file: scheme
\* and for a file that cannot be stat'ed; otherwise it answers "modified"
\* exactly when the file's modification time is later than since_ms.
C8_FileModified ==
  last.op = "DartFileModifiedCallback" =>
    LET url == last.source_url
        path == SubSeq(url, 6, Len(url))
    IN /\ ~fatal
       /\ IF ~HasFileScheme(url) THEN last.ret = TRUE
          ELSE IF path \notin DOMAIN files \/ ~files[path].exists THEN last.ret = TRUE
          ELSE last.ret = (files[path].last_modified > last.since_ms * 1000)

C8_Witness ==
  /\ last.op = "DartFileModifiedCallback"
  /\ HasFileScheme(last.source_url)
  /\ Len(last.source_url) = 7
  /\ last.since_ms = 1001
  /\ SubSeq(last.source_url, 6, 7) \in DOMAIN files
  /\ files[SubSeq(last.source_url, 6, 7)].exists
  /\ files[SubSeq(last.source_url, 6, 7)].last_modified = 1001000
  /\ last.ret = FALSE

\* C9: listen answers true and turns capture on exactly for "Stdout" and
\* "Stderr"; for any other id listen answers false and cancel does nothing,
\* and neither capture state changes; so stdout capture stays on when a call
\* for "Unknown" follows listen("Stdout").
C9_StreamCapture ==
  /\ last.op = "ServiceStreamListenCallback" =>
       /\ last.ret = (last.id \in {"Stdout", "Stderr"})
       /\ capture.stdout = (IF last.id = "Stdout" THEN TRUE ELSE last.before.stdout)
       /\ capture.stderr = (IF last.id = "Stderr" THEN TRUE ELSE last.before.stderr)
  /\ last.op = "ServiceStreamCancelCallback" =>
       /\ capture.stdout = (IF last.id = "Stdout" THEN FALSE ELSE last.before.stdout)
       /\ capture.stderr = (IF last.id = "Stderr" THEN FALSE ELSE last.before.stderr)
  /\ \A n \in 2..Len(streamLog) :
       (streamLog[n - 1] = [op |-> "listen", id |-> "Stdout"]
        /\ streamLog[n].id = "Unknown"
        /\ n = Len(streamLog)) => capture.stdout

C9_Witness ==
  /\ Len(streamLog) = 3
  /\ streamLog[1] = [op |-> "listen", id |-> "Stderr"]
  /\ streamLog[2] = [op |-> "listen", id |-> "Stdout"]
  /\ streamLog[3] = [op |-> "cancel", id |-> "Unknown"]
  /\ capture.stdout
  /\ capture.stderr

\* C10: with no pair stored the two notifications do nothing; with a pair
\* stored, start runs the start callback of the pair stored last, once, and
\* stop runs its stop callback, once, and nothing else runs.
C10_TracingCallbacks ==
  /\ g_tracing_callbacks = lastSetCallbacks
  /\ last.op = "EmbedderTimelineStartRecording" =>
       invoked = (IF lastSetCallbacks.set
                    THEN [last.before EXCEPT ![lastSetCallbacks.start] = @ + 1]
                    ELSE last.before)
  /\ last.op = "EmbedderTimelineStopRecording" =>
       invoked = (IF lastSetCallbacks.set
                    THEN [last.before EXCEPT ![lastSetCallbacks.stop] = @ + 1]
                    ELSE last.before)

C10_Witness ==
  /\ last.op = "EmbedderTimelineStartRecording"
  /\ vmCalls >= 2
  /\ lastSetCallbacks.set
  /\ lastSetCallbacks.start = "g"
  /\ lastSetCallbacks.stop = "h"
  /\ invoked["g"] = last.before["g"] + 1
  /\ invoked["f"] > 0


ServiceName == <<"v", "m", "-", "s", "e", "r", "v", "i", "c", "e">>

GenericCreation == last.op = "IsolateCreateCallback" /\ last.script_uri # ServiceName

HasFilePrefix(uri) ==
  Len(uri) >= 7 /\ SubSeq(uri, 1, 7) = <<"f", "i", "l", "e", ":", "/", "/">>

\* The resolver itself ends the process: asset mapping with no snapshot
\* directory configured.
NoSnapshotDirectory ==
  build.dynamic_resolution /\ build.os = "android" /\ settings.aot_snapshot_path = ""

\* The call of a generic isolate creation at which the process must end, for
\* the answers env and the execution mode found; "none" when every step
\* succeeds.  "std::string(nullptr)" stands for the crash on a null URI.
FailingStep(uri, env, precompiled) ==
  IF ~precompiled /\ ~HasFilePrefix(uri) THEN "StartsWith(file://)"
  ELSE IF ~precompiled /\ env.asset = "missing" THEN "GetAsBuffer(snapshot_blob.bin)"
  ELSE IF ~env.create_ok THEN "Dart_CreateIsolate"
  ELSE IF ~env.tag_ok THEN "Dart_SetLibraryTagHandler"
  ELSE IF uri = <<NullName>> /\ env.null_uri_crash THEN "std::string(nullptr)"
  ELSE IF ~precompiled /\ env.asset = "data" /\ ~env.load_ok
    THEN "Dart_LoadScriptFromSnapshot"
  ELSE IF ~env.runnable_ok THEN "Dart_IsolateMakeRunnable"
  ELSE "none"

LastCall == last.trace[Len(last.trace)]

\* C11: a generic isolate creation either returns a non-null handle after
\* Dart_IsolateMakeRunnable has succeeded or ends the process; the first step
\* that fails is the last call made, the result is then null, and no call is
\* made twice.
C11_CreateOrFatal ==
  GenericCreation =>
    IF NoSnapshotDirectory
      THEN fatal /\ last.ret = Null /\ last.trace = <<>>
    ELSE
      LET step == FailingStep(last.script_uri, last.env, last.modes[1]) IN
      /\ Cardinality(Range(last.trace)) = Len(last.trace)
      /\ IF step = "none"
           THEN /\ ~fatal
                /\ last.ret # Null
                /\ LastCall = "Dart_IsolateMakeRunnable"
           ELSE /\ fatal
                /\ last.ret = Null
                /\ "Dart_IsolateMakeRunnable" \in Range(last.trace)
                     => step = "Dart_IsolateMakeRunnable"
                /\ IF step = "std::string(nullptr)"
                     THEN LastCall = "DartMojoInternal::InitForIsolate"
                     ELSE LastCall = step

C11_Witness ==
  /\ GenericCreation
  /\ ~last.modes[1]
  /\ ~last.env.load_ok
  /\ fatal
  /\ LastCall = "Dart_LoadScriptFromSnapshot"
  /\ "Dart_IsolateMakeRunnable" \notin Range(last.trace)


\* How often call e occurs in a trace.
Count(trace, e) == Cardinality({n \in DOMAIN trace : trace[n] = e})

\* The calls of InitDartVM that apply flags, register callbacks or start the VM.
BootCalls ==
  {"Dart_SetVMFlags", "DartDebugger::InitDebugger",
   "Dart_SetEmbedderTimelineCallbacks", "Dart_SetFileModifiedCallback",
   "Dart_Initialize", "Dart_SetServiceStreamCallbacks"}

\* C12 as stated: flags are applied and the VM initialized at most once in a
\* process, and a second InitDartVM ends the process without applying flags,
\* registering callbacks or initializing the VM again.
C12_SecondInitFatal ==
  /\ vm.flags_set <= 1
  /\ vm.initialized <= 1
  /\ (last.op = "InitDartVM" /\ vmCalls >= 2) =>
       (fatal /\ Range(last.log) \cap BootCalls = {})

\* C12: one invocation of InitDartVM calls Dart_SetVMFlags once and
\* Dart_Initialize at most once, the latter only after the flags were
\* accepted; nothing in InitDartVM tells a second invocation from the first:
\* it applies the flags again and ends the process only when the VM refuses
\* the flags or reports an initialization error.
C12_OncePerInvocation ==
  last.op = "InitDartVM" =>
    /\ Count(last.log, "Dart_SetVMFlags") = (IF NoSnapshotDirectory THEN 0 ELSE 1)
    /\ Count(last.log, "Dart_Initialize") <= 1
    /\ vm.initialized <= vm.flags_set
    /\ vm.flags_set <= vmCalls
    /\ "Dart_Initialize" \in Range(last.log) => vm.flags_set = vmCalls
    /\ ~fatal => (vm.flags_set = vmCalls /\ vm.initialized = vmCalls)
    /\ fatal => vm.initialized = vmCalls - 1

C12_Witness ==
  /\ last.op = "InitDartVM"
  /\ vmCalls = 2
  /\ ~fatal
  /\ vm.flags_set = 2
  /\ vm.initialized = 2
  /\ Count(last.log, "Dart_SetVMFlags") = 1


\* C13: every call of IsRunningPrecompiledCode in the life of a process
\* gives the same answer.
C13_ModeImmutable == Cardinality(modes_seen) <= 1


\* The isolates whose callback data is the state at address a.
OwnersOf(a) == {i \in DOMAIN isolates : isolates[i].callback_data = a}

\* C14: every isolate created has one DartState of its own as callback data
\* and every DartState belongs to one isolate; the state has been deleted once
\* if its isolate's shutdown notification has been delivered and not at all
\* otherwise.
C14_StateOwnership ==
  ~fatal =>
    /\ \A i \in DOMAIN isolates : isolates[i].callback_data \in DOMAIN dart_states
    /\ \A a \in DOMAIN dart_states :
         /\ Cardinality(OwnersOf(a)) = 1
         /\ \A i \in OwnersOf(a) :
              dart_states[a].deleted = (IF isolates[i].shutdown THEN 1 ELSE 0)
    /\ (last.op = "IsolateCreateCallback" /\ last.ret # Null) =>
         /\ isolates # <<>>
         /\ isolates[Len(isolates)].handle = last.ret
         /\ isolates[Len(isolates)].callback_data = Len(dart_states)

C14_Witness ==
  /\ ~fatal
  /\ last.op = "IsolateShutdownCallback"
  /\ Len(isolates) = 2
  /\ isolates[1].callback_data # isolates[2].callback_data
  /\ ~isolates[1].shutdown
  /\ isolates[2].shutdown
  /\ dart_states[isolates[2].callback_data].deleted = 1
  /\ dart_states[isolates[1].callback_data].deleted = 0


ServiceCreation == last.op = "IsolateCreateCallback" /\ last.script_uri = ServiceName

\* C15: in a product build the service isolate callback does nothing and
\* returns null: no call is made, no isolate or state comes to exist, no hook
\* runs, the initialized flag stays false and the process goes on; and both
\* hook setters always accept.
C15_ProductNoServiceIsolate ==
  build.product =>
    /\ ~g_service_isolate_initialized
    /\ ServiceCreation =>
         /\ ~fatal
         /\ last.ret = Null
         /\ last.trace = <<"ServiceIsolateCreateCallback">>
         /\ last.modes = <<>>
         /\ \A i \in DOMAIN isolates : isolates[i].handle # vmCalls
         /\ Len(dart_states) = Len(isolates)
    /\ last.op = "SetServiceIsolateHook" =>
         (~fatal /\ g_service_isolate_hook = last.hook)
    /\ last.op = "SetRegisterNativeServiceProtocolExtensionHook" =>
         (~fatal /\ g_register_native_service_protocol_extensions_hook = last.hook)

C15_Witness ==
  /\ build.product
  /\ ServiceCreation
  /\ g_service_isolate_hook = "registrar"
  /\ g_register_native_service_protocol_extensions_hook = "registrar"
  /\ settings.enable_observatory
  /\ last.ret = Null
  /\ ~fatal


\* Where call e stands in a trace that holds it.
Pos(trace, e) == CHOOSE n \in DOMAIN trace : trace[n] = e

\* e comes before f whenever a trace holds both.
Before(trace, e, f) ==
  (e \in Range(trace) /\ f \in Range(trace)) => Pos(trace, e) < Pos(trace, f)

\* The execution mode in the state reached: by the symbol linked in, by what
\* app.dylib or the default namespace defines, or by the mapped asset.
ModeNow ==
  IF ~build.dynamic_resolution THEN FALSE
  ELSE IF build.os = "android"
    THEN \E i \in AssetIdx : /\ g_symbol_assets[i].symbol_name = "kInstructionsSnapshot"
                             /\ mapping[i] # Null
  ELSE AppAddress("kInstructionsSnapshot") # Null
       \/ DefaultAddress("kInstructionsSnapshot") # Null

PostHook == "g_service_isolate_hook"
ExtHook == "g_register_native_service_protocol_extensions_hook"
FlagSet == "g_service_isolate_initialized = true"

HookCalls(name) == {n \in DOMAIN last.hooks : last.hooks[n].name = name}

\* C16: creating the service isolate runs the post-creation hook inside the
\* API scope before the initialized flag is set, sets the flag after
\* Dart_ExitIsolate, and runs the extension-registration hook after that;
\* each hook runs at most once and is given the execution mode; a hook
\* registration made by the post-creation hook is accepted and one made by
\* the extension-registration hook ends the process.
C16_ServiceHookOrder ==
  (ServiceCreation /\ ~build.product) =>
    /\ Cardinality(HookCalls(PostHook)) <= 1
    /\ Cardinality(HookCalls(ExtHook)) <= 1
    /\ Count(last.trace, FlagSet) <= 1
    /\ Before(last.trace, "DartApiScope+", PostHook)
    /\ Before(last.trace, PostHook, "DartApiScope-")
    /\ Before(last.trace, "DartApiScope-", "Dart_ExitIsolate")
    /\ Before(last.trace, "Dart_ExitIsolate", FlagSet)
    /\ Before(last.trace, FlagSet, ExtHook)
    /\ \A m \in HookCalls(PostHook), n \in HookCalls(ExtHook) : m < n
    /\ ~fatal =>
         /\ FlagSet \in Range(last.trace)
         /\ g_service_isolate_initialized
         /\ (HookCalls(PostHook) # {}) = (g_service_isolate_hook # "nullptr")
         /\ (HookCalls(ExtHook) # {})
              = (g_register_native_service_protocol_extensions_hook # "nullptr")
    /\ \A n \in DOMAIN last.hooks :
         LET h == last.hooks[n] IN
         /\ h.argument = ModeNow
         /\ h.name = PostHook =>
              /\ h.in_scope
              /\ h.initialized = last.before
              /\ (h.hook = "registrar" /\ ~last.before) => h.accepted
         /\ h.name = ExtHook =>
              /\ ~h.in_scope
              /\ h.initialized
              /\ h.hook = "registrar" => (~h.accepted /\ fatal)

C16_Witness ==
  /\ ServiceCreation
  /\ ~build.product
  /\ ~last.before
  /\ Len(last.hooks) = 2
  /\ last.hooks[1].name = PostHook
  /\ last.hooks[1].hook = "registrar"
  /\ last.hooks[1].accepted
  /\ last.hooks[1].argument
  /\ last.hooks[2].name = ExtHook
  /\ last.hooks[2].hook = "registrar"
  /\ fatal


HookSetters == {"SetServiceIsolateHook", "SetRegisterNativeServiceProtocolExtensionHook"}

\* An answer that fails one of the checks of lines 188-206.
ServiceCheckFails(env) ==
  \/ ~env.create_ok
  \/ ~env.is_service
  \/ ~env.tag_ok
  \/ settings.enable_observatory /\ ~env.startup_ok

\* A hook registration has been rejected in the state reached: by a setter
\* called directly, or by one a hook called.
RegistrationRejected ==
  \/ last.op \in HookSetters /\ fatal
  \/ /\ last.op = "IsolateCreateCallback"
     /\ \E n \in DOMAIN last.hooks : ~last.hooks[n].accepted

\* One step of the process, as far as the initialized flag goes.
FlagStep ==
  /\ g_service_isolate_initialized => g_service_isolate_initialized'
  /\ (~g_service_isolate_initialized /\ g_service_isolate_initialized') =>
       /\ ~build.product
       /\ last'.op = "IsolateCreateCallback"
       /\ last'.script_uri = ServiceName
       /\ ~ServiceCheckFails(last'.env)
       /\ Count(last'.trace, FlagSet) = 1
       /\ \A e \in {"Dart_CreateIsolate", "Dart_IsServiceIsolate",
                     "Dart_SetLibraryTagHandler", "DartApiScope+",
                     "DartApiScope-", "Dart_ExitIsolate"} :
            e \in Range(last'.trace) /\ Before(last'.trace, e, FlagSet)
       /\ settings.enable_observatory =>
            /\ "DartServiceIsolate::Startup" \in Range(last'.trace)
            /\ Before(last'.trace, "DartServiceIsolate::Startup", FlagSet)
  /\ (/\ last'.op = "IsolateCreateCallback"
      /\ last'.script_uri = ServiceName
      /\ vmCalls' # vmCalls
      /\ ~build.product
      /\ ServiceCheckFails(last'.env)) =>
       /\ fatal'
       /\ FlagSet \notin Range(last'.trace)
       /\ g_service_isolate_initialized' = g_service_isolate_initialized
  /\ (last'.op \in HookSetters /\ last' # last /\ ~build.product) =>
       /\ fatal' = g_service_isolate_initialized
       /\ g_service_isolate_initialized' = g_service_isolate_initialized
  /\ RegistrationRejected' =>
       (fatal' /\ g_service_isolate_initialized')

\* C17: the initialized flag starts false, is set only by a service isolate
\* creation that passed isolate creation, the service-isolate check, the tag
\* handler check and, when enabled, the transport startup and left its API
\* scope, and is never reset; a creation that fails one of these checks ends
\* the process with the flag as it found it; a hook registration is rejected
\* exactly when the flag is set, so after a rejection the flag is set for
\* good and no registration is accepted.
C17_FlagMonotone ==
  /\ ~g_service_isolate_initialized
  /\ [][FlagStep]_vars

C17_Witness ==
  /\ ~build.product
  /\ last.op = "SetServiceIsolateHook"
  /\ last.before.initialized
  /\ g_service_isolate_initialized
  /\ RegistrationRejected
  /\ vmCalls >= 2


\* The calls of InitDartVM the order of which matters, in the order of the
\* source.
BootOrder ==
  <<"Dart_SetVMFlags", "DartDebugger::InitDebugger", "DartUI::InitForGlobal",
    "Dart_SetEmbedderTimelineCallbacks", "Dart_SetFileModifiedCallback",
    "Dart_Initialize", "Dart_SetServiceStreamCallbacks">>

\* What the VM holds before it is handed the isolate callbacks.
BeforeInitializeInPlace ==
  /\ ~build.product => vm.debugger
  /\ (TimelineCallbacks \cup FileCallbacks) \subseteq vm.callbacks

\* C18: a run of InitDartVM makes each of its calls at most once and in the
\* order Dart_SetVMFlags, debugger initialisation (builds with diagnostics
\* only), global bindings, tracing callbacks, file-modified callback,
\* Dart_Initialize, service stream callbacks; the stream callbacks are
\* registered only after Dart_Initialize reported no error; when the VM holds
\* the isolate creation callback, and whenever that callback runs, the
\* debugger is initialised and the tracing and file-modified callbacks are
\* registered.
C18_BootOrder ==
  /\ last.op = "InitDartVM" =>
       /\ \A i \in DOMAIN BootOrder : Count(last.log, BootOrder[i]) <= 1
       /\ \A i, j \in DOMAIN BootOrder :
            i < j => Before(last.log, BootOrder[i], BootOrder[j])
       /\ ("DartDebugger::InitDebugger" \in Range(last.log)) =
            (~build.product /\ last.accept)
       /\ "Dart_Initialize" \in Range(last.log) =>
            \A i \in 1..5 :
              (i # 2 \/ ~build.product) => BootOrder[i] \in Range(last.log)
       /\ ("Dart_SetServiceStreamCallbacks" \in Range(last.log)) =
            (last.accept /\ last.init_ok)
       /\ "Dart_SetServiceStreamCallbacks" \in Range(last.log) =>
            "Dart_Initialize" \in Range(last.log)
       /\ ~fatal = (last.accept /\ last.init_ok)
       /\ ~fatal => (StreamCallbacks \subseteq vm.callbacks /\ vm.initialized = 1)
       /\ fatal => StreamCallbacks \cap vm.callbacks = {}
  /\ "IsolateCreateCallback" \in vm.callbacks => BeforeInitializeInPlace
  /\ last.op = "IsolateCreateCallback" =>
       (BeforeInitializeInPlace /\ vm.initialized = 1)

C18_Witness ==
  /\ last.op = "InitDartVM"
  /\ ~build.product
  /\ build.os = "android"
  /\ ~fatal
  /\ \A i \in DOMAIN BootOrder : BootOrder[i] \in Range(last.log)
  /\ "IsolateCreateCallback" \in vm.callbacks


LastLogged == last.log[Len(last.log)]

\* The calls of InitDartVM that follow Dart_SetVMFlags.
AfterSetVMFlags ==
  {"DartDebugger::InitDebugger", "DartUI::InitForGlobal", "DartJni::InitForGlobal",
   "Dart_SetEmbedderTimelineCallbacks", "Dart_SetFileModifiedCallback",
   "Dart_Initialize", "Dart_TimelineEvent", "Dart_SetServiceStreamCallbacks"}

\* C19: when Dart_SetVMFlags returns false, InitDartVM ends the process
\* there: Dart_SetVMFlags is the last call made, no debugger initialisation,
\* global binding, callback registration or Dart_Initialize follows, and the
\* VM is left as it was; when Dart_Initialize reports an error the process
\* ends there and the service stream callbacks are not registered.
C19_RejectionIsFatal ==
  (last.op = "InitDartVM" /\ "Dart_SetVMFlags" \in Range(last.log)) =>
    /\ ~last.accept =>
         /\ fatal
         /\ LastLogged = "Dart_SetVMFlags"
         /\ Range(last.log) \cap AfterSetVMFlags = {}
         /\ vm.flags_set < vmCalls
         /\ vm.initialized < vmCalls
         /\ vmCalls = 1 => vm = NoVM
    /\ (last.accept /\ ~last.init_ok) =>
         /\ fatal
         /\ LastLogged = "Dart_Initialize"
         /\ Range(last.log) \cap {"Dart_TimelineEvent",
                                   "Dart_SetServiceStreamCallbacks"} = {}
         /\ vm.initialized < vmCalls
         /\ vmCalls = 1 =>
              /\ vm.flags_set = 1
              /\ vm.initialized = 0
              /\ vm.callbacks \cap StreamCallbacks = {}
    /\ fatal = ~(last.accept /\ last.init_ok)

C19_Witness ==
  /\ last.op = "InitDartVM"
  /\ ~last.accept
  /\ fatal
  /\ LastLogged = "Dart_SetVMFlags"
  /\ last.args # NoFlags
  /\ vm = NoVM


SnapshotCalls ==
  {"StartsWith(file://)", "ZipAssetBundle", "GetAsBuffer(snapshot_blob.bin)",
   "Dart_LoadScriptFromSnapshot"}

\* C20: a generic isolate creation fetches the snapshot exactly when the
\* code is not precompiled; precompiled, it makes no scheme check, opens no
\* bundle and loads no snapshot; otherwise a URI without the file:// prefix
\* or a bundle without snapshot_blob.bin ends the process before a state is
\* derived or an isolate created; a snapshot is loaded only from a buffer
\* that was obtained, and every isolate returned when the code is not
\* precompiled has had its snapshot loaded, an empty buffer included.
C20_LoadIffObtained ==
  (GenericCreation /\ ~NoSnapshotDirectory) =>
    LET precompiled == last.modes[1]
        calls == Range(last.trace)
        obtained == /\ "GetAsBuffer(snapshot_blob.bin)" \in calls
                    /\ last.env.asset # "missing"
    IN
    /\ ("StartsWith(file://)" \in calls) = ~precompiled
    /\ precompiled => calls \cap SnapshotCalls = {}
    /\ ("GetAsBuffer(snapshot_blob.bin)" \in calls) =
         (~precompiled /\ HasFilePrefix(last.script_uri))
    /\ (~precompiled /\ ~(HasFilePrefix(last.script_uri) /\ obtained)) =>
         /\ fatal
         /\ last.ret = Null
         /\ calls \cap {"CreateForChildIsolate", "Dart_CreateIsolate"} = {}
         /\ \A i \in DOMAIN isolates : isolates[i].handle # vmCalls
         /\ Len(dart_states) = Len(isolates)
    /\ "Dart_LoadScriptFromSnapshot" \in calls => obtained
    /\ (~precompiled /\ last.ret # Null) =>
         "Dart_LoadScriptFromSnapshot" \in calls


\* The calls of lines 250-287 in the order of the source.
CreationOrder ==
  <<"CreateForChildIsolate", "Dart_CreateIsolate", "SetIsolate",
    "Dart_SetLibraryTagHandler", "DartApiScope+", "DartIO::InitForIsolate",
    "DartUI::InitForIsolate", "DartMojoInternal::InitForIsolate",
    "DartRuntimeHooks::Install", "add_provider(ui)", "DartJni::InitForIsolate",
    "add_provider(jni)", "Dart_LoadScriptFromSnapshot",
    "DidCreateSecondaryIsolate", "DartApiScope-", "Dart_ExitIsolate",
    "Dart_IsolateMakeRunnable">>

\* The calls that install the bindings of an isolate.
Bindings ==
  {"DartIO::InitForIsolate", "DartUI::InitForIsolate",
   "DartMojoInternal::InitForIsolate", "DartRuntimeHooks::Install",
   "add_provider(ui)"}
  \cup (IF build.os = "android"
          THEN {"DartJni::InitForIsolate", "add_provider(jni)"} ELSE {})

\* The calls made with the API scope of the invocation open.
Scoped ==
  (Bindings \cup {"Dart_LoadScriptFromSnapshot", "DidCreateSecondaryIsolate",
                  "DartApiScope-"})

CallsOn(h) == {progress[h][n].call : n \in DOMAIN progress[h]}

\* C21: each invocation for a generic URI makes its calls once and in the
\* order of the source: state derived, isolate created, tag handler, scope
\* entered, bindings, provider, snapshot load if any, owner notified, scope
\* left, isolate exited, isolate made runnable; an isolate is made runnable
\* only with its bindings installed and while no thread holds a scope on it
\* or has it as current isolate; the owner is not notified after a failed
\* load; and every call that acts on an isolate is made by the thread that
\* created it, inside that thread's own scope where the source has it so.
C21_OrderedNested ==
  /\ \A t \in Threads :
       LET d == creating[t].done IN
       /\ Cardinality(Range(d)) = Len(d)
       /\ \A i, j \in DOMAIN CreationOrder :
            i < j => Before(d, CreationOrder[i], CreationOrder[j])
       /\ "Dart_IsolateMakeRunnable" \in Range(d) =>
            (Bindings \cup {"CreateForChildIsolate", "Dart_CreateIsolate",
                            "Dart_SetLibraryTagHandler", "DartApiScope+",
                            "DidCreateSecondaryIsolate", "DartApiScope-",
                            "Dart_ExitIsolate"}) \subseteq Range(d)
       /\ ("DidCreateSecondaryIsolate" \in Range(d)
             /\ "Dart_LoadScriptFromSnapshot" \in Range(d)) => creating[t].load_ok
       /\ vm_thread[t].scope =>
            /\ vm_thread[t].isolate # Null
            /\ vm_thread[t].isolate = creating[t].isolate
            /\ \A u \in Threads \ {t} : vm_thread[u].isolate # vm_thread[t].isolate
  /\ \A h \in DOMAIN progress :
       \A n \in DOMAIN progress[h] :
         LET p == progress[h][n] IN
         /\ p.thread = progress[h][1].thread
         /\ progress[h][1].call = "Dart_CreateIsolate"
         /\ p.current_on \subseteq {p.thread}
         /\ p.in_scope_of \subseteq {p.thread}
         /\ p.call \in Scoped => (p.scope /\ p.in_scope_of = {p.thread})
         /\ p.call = "Dart_IsolateMakeRunnable" =>
              /\ ~p.scope
              /\ p.in_scope_of = {}
              /\ p.current_on = {}
              /\ Bindings \subseteq {progress[h][m].call : m \in 1..(n - 1)}
         /\ p.call = "DidCreateSecondaryIsolate" =>
              \A m \in 1..(n - 1) :
                progress[h][m].call = "Dart_LoadScriptFromSnapshot"
                  => progress[h][m].ok

\* Two invocations overlap: one thread is between entering and leaving its
\* scope while the other has made its isolate runnable and returned it.
C21_Witness ==
  /\ vm_thread["t1"].scope
  /\ creating["t1"].isolate = 1
  /\ "Dart_LoadScriptFromSnapshot" \in CallsOn(1)
  /\ creating["t2"].pc = "idle"
  /\ creating["t2"].isolate = 2
  /\ "DartApiScope+" \in CallsOn(2)
  /\ "Dart_IsolateMakeRunnable" \in CallsOn(2)
  /\ last.op = "IsolateCreateCallback" /\ last.thread = "t2" /\ last.ret = 2


\* The calls made so far with stream id `id`, by position in streamLog.
CallsFor(id) == {n \in DOMAIN streamLog : streamLog[n].id = id}

\* The latest call with stream id `id` was a listen; FALSE when there is none.
LastWasListen(id) ==
  /\ CallsFor(id) # {}
  /\ streamLog[CHOOSE n \in CallsFor(id) : \A m \in CallsFor(id) : m <= n].op = "listen"

StreamCall ==
  last.op \in {"ServiceStreamListenCallback", "ServiceStreamCancelCallback"}

\* C22: after any sequence of listen and cancel calls, stdout capture is on
\* iff the latest call with id "Stdout" was a listen and stderr capture is on
\* iff the latest call with id "Stderr" was a listen; a call with id "Stdout"
\* leaves stderr capture as it was and a call with id "Stderr" leaves stdout
\* capture as it was; a call that repeats the one before it changes nothing.
C22_LastCallWins ==
  /\ capture.stdout = LastWasListen("Stdout")
  /\ capture.stderr = LastWasListen("Stderr")
  /\ (StreamCall /\ last.id = "Stdout") => capture.stderr = last.before.stderr
  /\ (StreamCall /\ last.id = "Stderr") => capture.stdout = last.before.stdout
  /\ \A n \in 2..Len(streamLog) :
       (n = Len(streamLog) /\ streamLog[n] = streamLog[n - 1])
         => capture = last.before

C22_Witness ==
  /\ Len(streamLog) = 3
  /\ streamLog[1] = [op |-> "listen", id |-> "Stdout"]
  /\ streamLog[2] = [op |-> "cancel", id |-> "Stderr"]
  /\ streamLog[3] = [op |-> "cancel", id |-> "Stderr"]
  /\ last.before = capture
  /\ capture.stdout
  /\ ~capture.stderr

====
